---- MODULE Spec2Model ----
(***************************************************************************)
(* Model of the quantitative engine of hedge_manager_gui.py:               *)
(*   - the Black-Scholes pricer (price and delta, PUT and CALL),           *)
(*   - the inverse delta solver find_underlying_for_delta,                 *)
(*   - the spread calculator calculate_spread (classification, margin),    *)
(*   - its second implementation calculate_spread_internal, driven by the  *)
(*     optimizer tab,                                                      *)
(*   - the roll analysis analyze_roll_scenarios,                           *)
(*   - the delta balancer analyze_balancer with find_strike_for_delta,     *)
(*     and the handlers of its opposite-strike field,                      *)
(*   - the exit prices calculate_exit_prices,                              *)
(*   - the premium fetches of the optimizer tab (fetch_premium).           *)
(*                                                                         *)
(* Number representation (Python floats become fixed-point integers):      *)
(*   pricer:     S, K in whole dollars; T = Tdays/365; r, sigma in percent;*)
(*               d1 and logarithms in units of 1e-4; probabilities and     *)
(*               deltas in units of 1e-6; option prices in cents.          *)
(*   calculator: strikes, premiums, underlying in cents per share;         *)
(*               per-contract amounts (x100) in cents.                     *)
(*   roll:       underlying and strikes in whole dollars, premiums in      *)
(*               cents per share, amounts in cents, probabilities in       *)
(*               units of 0.1 %, scores in units of 0.001.                 *)
(*   balancer:   underlying and strikes in whole dollars, deltas in units  *)
(*               of 1e-6; the opposite-strike field and the strike kept    *)
(*               in bal_last_analysis in cents.                            *)
(*   exit:       strike and underlying in whole dollars, prices in cents.  *)
(*   fetches:    strikes and prices in cents, expiries in days ahead.      *)
(***************************************************************************)
EXTENDS Integers, Sequences, FiniteSets, TLC

VARIABLES
    pricer,           \* a direct call of a pricer function: arguments and outcome
    solver,           \* a call of find_underlying_for_delta: arguments and outcome
    calc_fields,      \* the calculator tab's entry fields and option_type_var
    broker_var,       \* broker_var
    calc_run,         \* how the last calculate_spread ended, and its local variables
    last_calc_result, \* last_calc_result
    opt_data,         \* opt_data
    opt_entries,      \* opt_short_premium_entry, opt_long_premium_entry
    opt_new_calc,     \* new_calc of the last recalculate_optimizer
    roll_fields,      \* the roll tab's entry fields, option_type_var, available_expiries
    roll_run,         \* how the last analyze_roll_scenarios ended, and its recommendation
    roll_scenarios,   \* roll_scenarios
    bal_fields,       \* the balancer tab's entry fields of the LONG leg
    bal_run,          \* how the last analyze_balancer ended, and what it reported
    bal_last_analysis, \* bal_last_analysis
    bal_opposite,     \* bal_opposite_strike_var, _premium_var, _type_var
    exit_fields,      \* the exit tab's entry fields: strike, iv, expiry, option type
    exit_run,         \* how the last calculate_exit_prices ended
    exit_tree,        \* the rows of exit_tree
    recommendations_text, \* the prices shown in recommendations_text
    available_expiries, \* available_expiries, as the optimizer tab reads it
    opt_expiry_idx,   \* opt_data['short_expiry_idx'], opt_data['long_expiry_idx']
    fetch_started,    \* per leg, the fetch threads started by fetch_premium
    opt_workers,      \* the fetch threads that have not finished
    opt_after         \* the callbacks scheduled with root.after, not yet run

calc_vars == <<calc_fields, broker_var, calc_run, last_calc_result,
               opt_data, opt_entries, opt_new_calc>>

roll_vars == <<roll_fields, roll_run, roll_scenarios>>

bal_vars == <<bal_fields, bal_run, bal_last_analysis, bal_opposite>>

exit_vars == <<exit_fields, exit_run, exit_tree, recommendations_text>>

fetch_vars == <<available_expiries, opt_expiry_idx, fetch_started, opt_workers, opt_after>>

vars == <<pricer, solver, calc_fields, broker_var, calc_run, last_calc_result,
          opt_data, opt_entries, opt_new_calc, roll_fields, roll_run, roll_scenarios,
          bal_fields, bal_run, bal_last_analysis, bal_opposite,
          exit_fields, exit_run, exit_tree, recommendations_text,
          available_expiries, opt_expiry_idx, fetch_started, opt_workers, opt_after>>

(***************************************************************************)
(* Optional values: None is the empty tuple, Some(x) the one-element tuple. *)
(***************************************************************************)
None == << >>
Some(x) == <<x>>
IsSome(o) == Len(o) = 1
The(o) == o[1]

Max2(a, b) == IF a >= b THEN a ELSE b
Abs(a) == IF a >= 0 THEN a ELSE -a

(***************************************************************************)
(* Fixed-point scales.                                                     *)
(***************************************************************************)
LSC == 100 * 100        \* logarithms, d1, d2: 1e-4
PSC == 1000 * 1000      \* probabilities, deltas: 1e-6

(***************************************************************************)
(* math.sqrt on non-negative integers: the floor of the square root, found *)
(* by bisection.                                                           *)
(***************************************************************************)
RECURSIVE IsqrtIn(_, _, _)
IsqrtIn(n, lo, hi) ==
    IF hi - lo <= 1 THEN lo
    ELSE CHOOSE root \in {IF mid * mid <= n THEN IsqrtIn(n, mid, hi) ELSE IsqrtIn(n, lo, mid) :
                             mid \in {(lo + hi) \div 2}} : TRUE

Isqrt(n) == IsqrtIn(n, 0, 46340)

\* math.sqrt(T) for T = Tdays/365 > 0, in units of 1e-4
SqrtT(Tdays) == Isqrt(((Tdays * 1000000) \div 365) * 100)

(***************************************************************************)
(* math.log(S / K) for S/K > 0, in units of 1e-4, by the series            *)
(*   ln(x) = 2 (y + y^3/3 + y^5/5 + ...),  y = (x - 1)/(x + 1).            *)
(***************************************************************************)
RECURSIVE LnSeries(_, _, _, _)
LnSeries(pw, y2, n, last) ==
    IF n > last THEN 0
    ELSE CHOOSE sum \in {(term \div n) + LnSeries((term * y2) \div LSC, y2, n + 2, last) :
                            term \in {pw}} : TRUE

Ln(S, K) ==
    LET a == Abs(S)
        b == Abs(K)
    IN CHOOSE ln \in UNION {
           {IF a >= b THEN 2 * LnSeries(y, y2, 1, 41) ELSE -(2 * LnSeries(y, y2, 1, 41)) :
               y2 \in {(y * y) \div LSC}} :
           y \in {(Abs(a - b) * LSC) \div (a + b)}} : TRUE

(***************************************************************************)
(* math.exp(-x) for small x >= 0 (x in units of 1e-4), in units of 1e-4:   *)
(*   1 - x + x^2/2 - x^3/6.                                                *)
(***************************************************************************)
ExpNeg(x) ==
    LET x2 == (x * x) \div LSC
        x3 == (x2 * x) \div LSC
    IN LSC - x + (x2 \div 2) - (x3 \div 6)

(***************************************************************************)
(* scipy.stats.norm.cdf: the table holds Phi(z) * 1e6 at z = -5.0, -4.9,   *)
(* ..., 5.0; values in between are interpolated linearly, values outside   *)
(* are 0 and 1.                                                            *)
(***************************************************************************)
NormCdfTab == <<
    0, 0, 1, 1, 2, 3, 5, 9, 13, 21,
    32, 48, 72, 108, 159, 233, 337, 483, 687, 968,
    1350, 1866, 2555, 3467, 4661, 6210, 8198, 10724, 13903, 17864,
    22750, 28717, 35930, 44565, 54799, 66807, 80757, 96800, 115070, 135666,
    158655, 184060, 211855, 241964, 274253, 308538, 344578, 382089, 420740, 460172,
    500000, 539828, 579260, 617911, 655422, 691462, 725747, 758036, 788145, 815940,
    841345, 864334, 884930, 903200, 919243, 933193, 945201, 955435, 964070, 971283,
    977250, 982136, 986097, 989276, 991802, 993790, 995339, 996533, 997445, 998134,
    998650, 999032, 999313, 999517, 999663, 999767, 999841, 999892, 999928, 999952,
    999968, 999979, 999987, 999991, 999995, 999997, 999998, 999999, 999999, 1000000,
    1000000 >>

NormCdf(z) ==
    IF z <= -50000 THEN 0
    ELSE IF z >= 50000 THEN PSC
    ELSE LET off == z + 50000
             i == (off \div 1000) + 1
             fr == off % 1000
         IN NormCdfTab[i] + ((NormCdfTab[i + 1] - NormCdfTab[i]) * fr) \div 1000

(***************************************************************************)
(* Outcomes of a pricer call: a returned number or a raised exception.     *)
(* closed tells whether the closed form (log and the division by           *)
(* sigma*sqrt(T)) was evaluated.                                           *)
(***************************************************************************)
Value(v, c) == [kind |-> "value", val |-> v, closed |-> c]
Raise(e) == [kind |-> e, val |-> 0, closed |-> TRUE]

\* d1 = (math.log(S / K) + (r + 0.5 * sigma ** 2) * T) / (sigma * math.sqrt(T))
\* evaluated left to right: S / K (ZeroDivisionError when K = 0), log
\* (ValueError when S/K <= 0), math.sqrt(T) (ValueError when T < 0), then the
\* division (ZeroDivisionError when sigma * sqrt(T) = 0)
D1(S, K, Tdays, r, sigma) ==
    IF K = 0 THEN Raise("ZeroDivisionError")
    ELSE IF S = 0 \/ (S < 0) # (K < 0) THEN Raise("ValueError")
    ELSE LET num == Ln(S, K) + (((r * 100 + (sigma * sigma) \div 2) * Tdays) \div 365)
             den == (sigma * SqrtT(Tdays)) \div 100
         IN IF Tdays < 0 THEN Raise("ValueError")
            ELSE IF sigma = 0 \/ Tdays = 0 THEN Raise("ZeroDivisionError")
            ELSE Value((num * LSC) \div den, TRUE)

\* d2 = d1 - sigma * math.sqrt(T)
D2(d1, Tdays, sigma) == d1 - (sigma * SqrtT(Tdays)) \div 100

\* math.exp(-r * T), in units of 1e-4
Discount(Tdays, r) == ExpNeg((r * 100 * Tdays) \div 365)

\* a dollar amount (S or K, possibly discounted by disc/1e4) times a
\* probability, in cents
Weighted(amount, disc, p) == (((amount * disc) \div 100) * (p \div 100)) \div LSC

black_scholes_put_price(S, K, Tdays, r, sigma) ==
    IF Tdays <= 0 THEN Value(100 * Max2(K - S, 0), FALSE)
    ELSE LET d1 == D1(S, K, Tdays, r, sigma)
         IN IF d1.kind # "value" THEN d1
            ELSE LET d2 == D2(d1.val, Tdays, sigma)
                 IN Value(Weighted(K, Discount(Tdays, r), NormCdf(-d2))
                          - Weighted(S, LSC, NormCdf(-d1.val)), TRUE)

black_scholes_call_price(S, K, Tdays, r, sigma) ==
    IF Tdays <= 0 THEN Value(100 * Max2(S - K, 0), FALSE)
    ELSE LET d1 == D1(S, K, Tdays, r, sigma)
         IN IF d1.kind # "value" THEN d1
            ELSE LET d2 == D2(d1.val, Tdays, sigma)
                 IN Value(Weighted(S, LSC, NormCdf(d1.val))
                          - Weighted(K, Discount(Tdays, r), NormCdf(d2)), TRUE)

\* black_scholes_delta_put with the expiry guard written T < 0
black_scholes_delta_put_strict_guard(S, K, Tdays, r, sigma) ==
    IF Tdays < 0 THEN Value(IF S < K THEN -PSC ELSE 0, FALSE)
    ELSE CHOOSE res \in {IF d1.kind # "value" THEN d1 ELSE Value(NormCdf(d1.val) - PSC, TRUE) :
                            d1 \in {D1(S, K, Tdays, r, sigma)}} : TRUE

black_scholes_delta_put(S, K, Tdays, r, sigma) ==
    IF Tdays <= 0 THEN Value(IF S < K THEN -PSC ELSE 0, FALSE)
    ELSE CHOOSE res \in {IF d1.kind # "value" THEN d1 ELSE Value(NormCdf(d1.val) - PSC, TRUE) :
                            d1 \in {D1(S, K, Tdays, r, sigma)}} : TRUE

black_scholes_delta_call(S, K, Tdays, r, sigma) ==
    IF Tdays <= 0 THEN Value(IF S > K THEN PSC ELSE 0, FALSE)
    ELSE CHOOSE res \in {IF d1.kind # "value" THEN d1 ELSE Value(NormCdf(d1.val), TRUE) :
                            d1 \in {D1(S, K, Tdays, r, sigma)}} : TRUE

(***************************************************************************)
(* find_underlying_for_delta and scipy.optimize.brentq.                    *)
(*                                                                         *)
(* brentq(f, a, b) evaluates f(a) and f(b); raises ValueError when they    *)
(* have the same strict sign; returns a (or b) when f is zero there; and   *)
(* otherwise narrows the bracket, keeping a sign change inside, until it   *)
(* is shorter than its tolerance.  On the dollar grid the tolerance is one *)
(* grid step, and the narrowing is bisection.                              *)
(***************************************************************************)
Sign(x) == IF x > 0 THEN 1 ELSE IF x < 0 THEN -1 ELSE 0

\* def delta_diff(S): return self.black_scholes_delta_xxx(S, K, T, r, sigma) - target_delta
delta_diff(S, p) ==
    CHOOSE res \in UNION {
        {IF d.kind # "value" THEN d ELSE Value(d.val - p.target, d.closed) :
            d \in {IF p.is_call THEN black_scholes_delta_call(s, p.K, p.Tdays, p.r, p.sigma)
                   ELSE black_scholes_delta_put(s, p.K, p.Tdays, p.r, p.sigma)}} :
        s \in {S}} : TRUE

RECURSIVE Bisect(_, _, _)
Bisect(lo, hi, p) ==
    IF hi - lo <= 1
    THEN IF Abs(delta_diff(hi, p).val) < Abs(delta_diff(lo, p).val) THEN hi ELSE lo
    ELSE LET mid == (lo + hi) \div 2
             fm == delta_diff(mid, p).val
         IN IF fm = 0 THEN mid
            ELSE IF Sign(fm) # Sign(delta_diff(lo, p).val) THEN Bisect(lo, mid, p)
            ELSE Bisect(mid, hi, p)

\* the outcome of brentq(delta_diff, a, b): a root, or a raised exception
brentq(a, b, p) ==
    LET fa == delta_diff(a, p)
        fb == delta_diff(b, p)
    IN IF fa.kind # "value" THEN Raise(fa.kind)
       ELSE IF fb.kind # "value" THEN Raise(fb.kind)
       ELSE IF Sign(fa.val) * Sign(fb.val) > 0 THEN Raise("ValueError")
       ELSE IF fa.val = 0 THEN Value(a, TRUE)
       ELSE IF fb.val = 0 THEN Value(b, TRUE)
       ELSE Value(Bisect(a, b, p), TRUE)

\* the search bracket: K * 0.9 .. K * 1.3 for calls, K * 0.7 .. K * 1.1 for puts
BracketLo(K, is_call) == IF is_call THEN (K * 9) \div 10 ELSE (K * 7) \div 10
BracketHi(K, is_call) == IF is_call THEN (K * 13) \div 10 ELSE (K * 11) \div 10

\* find_underlying_for_delta falling back to the strike when brentq raises
find_underlying_for_delta_strike_default(target_delta, K, Tdays, r, sigma, is_call) ==
    CHOOSE res \in UNION {
        {IF root.kind = "value" THEN Some(root.val) ELSE Some(K) :
            root \in {brentq(BracketLo(K, is_call), BracketHi(K, is_call), p)}} :
        p \in {[target |-> target_delta, K |-> K, Tdays |-> Tdays, r |-> r,
                sigma |-> sigma, is_call |-> is_call]}} : TRUE

\* returns Some(S) or None (Python None, after the bare except)
find_underlying_for_delta(target_delta, K, Tdays, r, sigma, is_call) ==
    CHOOSE res \in UNION {
        {IF root.kind = "value" THEN Some(root.val) ELSE None :
            root \in {brentq(BracketLo(K, is_call), BracketHi(K, is_call), p)}} :
        p \in {[target |-> target_delta, K |-> K, Tdays |-> Tdays, r |-> r,
                sigma |-> sigma, is_call |-> is_call]}} : TRUE

(***************************************************************************)
(* The spread calculator.                                                  *)
(*                                                                         *)
(* Amounts are in cents: strikes, premiums and the underlying per share,   *)
(* maxProfit, maxLoss, margin per contract (the code's "x 100").  A field  *)
(* left empty reads as 0 (float(x or 0)).  An expiry field holds 0 when    *)
(* empty, BadDate when its text does not parse as %Y%m%d, and n > 0 for    *)
(* the date n days after today.                                            *)
(***************************************************************************)
BadDate == 0 - 1

\* float('inf')
Unbounded == [inf |-> TRUE, v |-> 0]
Fin(x) == [inf |-> FALSE, v |-> x]

\* max(1, (exp_date - datetime.now()).days): the expiry is a midnight, now is
\* later in the day, so n days ahead leaves n - 1 whole days
DTE(expiry) == Max2(1, expiry - 1)

\* spread_width = abs(short_strike - long_strike) if long_strike > 0 else 0
SpreadWidth(short_strike, long_strike) ==
    IF long_strike > 0 THEN Abs(short_strike - long_strike) ELSE 0

\* same_expiry = (short_expiry == long_expiry) or not long_expiry
SameExpiry(short_expiry, long_expiry) ==
    short_expiry = long_expiry \/ long_expiry = 0

\* broker_pct * 100: 0.10 if broker == 'IBKR' else 0.15
BrokerPct(broker) == IF broker = "IBKR" THEN 10 ELSE 15

\* SpreadType with the width test of the different-expiry branch inverted
SpreadType_width_swapped(long_strike, long_premium, same_expiry, spread_width, is_credit, option_type) ==
    IF long_strike = 0 \/ long_premium = 0 THEN "Naked"
    ELSE IF same_expiry
    THEN IF spread_width = 0 THEN "Single"
         ELSE IF is_credit THEN "Vertical CREDIT Spread"
         ELSE "Vertical DEBIT Spread"
    ELSE IF spread_width # 0
    THEN IF is_credit THEN "Calendar CREDIT Spread" ELSE "Calendar DEBIT Spread"
    ELSE IF is_credit THEN "Diagonal CREDIT Spread"
    ELSE IF option_type = "CALL" THEN "PMCC"
    ELSE "PMCP"

\* the spread kind of calculate_spread (spread_type without the option type)
SpreadType(long_strike, long_premium, same_expiry, spread_width, is_credit, option_type) ==
    IF long_strike = 0 \/ long_premium = 0 THEN "Naked"
    ELSE IF same_expiry
    THEN IF spread_width = 0 THEN "Single"
         ELSE IF is_credit THEN "Vertical CREDIT Spread"
         ELSE "Vertical DEBIT Spread"
    ELSE IF spread_width = 0
    THEN IF is_credit THEN "Calendar CREDIT Spread" ELSE "Calendar DEBIT Spread"
    ELSE IF is_credit THEN "Diagonal CREDIT Spread"
    ELSE IF option_type = "CALL" THEN "PMCC"
    ELSE "PMCP"

\* CreditMaxLoss without the width test
CreditMaxLoss_always_finite(spread_width, net_credit) ==
    Fin((spread_width - net_credit) * 100)

\* max_loss of a credit position
CreditMaxLoss(spread_width, net_credit) ==
    IF spread_width > 0 THEN Fin((spread_width - net_credit) * 100)
    ELSE Unbounded

\* CreditBreakEven with the credit added for both option types
CreditBreakEven_added(short_strike, net_credit, option_type) ==
    short_strike + net_credit

\* break_even of a credit position
CreditBreakEven(short_strike, net_credit, option_type) ==
    IF option_type = "PUT" THEN short_strike - net_credit
    ELSE short_strike + net_credit

\* margin of a credit position
CreditMargin(spread_width, same_expiry, underlying_price, broker) ==
    IF spread_width > 0 /\ same_expiry THEN spread_width * 100
    ELSE IF spread_width > 0 THEN spread_width * 120
    ELSE underlying_price * BrokerPct(broker)

\* DebitAdditionalMargin with the IBKR rules for every broker
DebitAdditionalMargin_one_broker(spread_width, same_expiry, long_premium, underlying_price, broker) ==
    IF same_expiry /\ spread_width > 0 THEN 0
    ELSE IF spread_width = 0 THEN long_premium * 15
    ELSE Max2(spread_width * 100, underlying_price * 5)

\* additional_margin of a debit position
DebitAdditionalMargin(spread_width, same_expiry, long_premium, underlying_price, broker) ==
    IF same_expiry /\ spread_width > 0 THEN 0
    ELSE IF spread_width = 0
    THEN IF broker = "IBKR" THEN long_premium * 15 ELSE 0
    ELSE IF broker = "IBKR" THEN Max2(spread_width * 100, underlying_price * 5)
    ELSE spread_width * 150

\* DebitMaxProfit limited for every debit position with a width
DebitMaxProfit_any_expiry(spread_width, same_expiry, net_debit) ==
    IF spread_width > 0 THEN Fin((spread_width - net_debit) * 100)
    ELSE Unbounded

\* max_profit of a debit position
DebitMaxProfit(spread_width, same_expiry, net_debit) ==
    IF same_expiry /\ spread_width > 0 THEN Fin((spread_width - net_debit) * 100)
    ELSE Unbounded

\* DebitBreakEven with the debit subtracted for a PUT
DebitBreakEven_put_below(short_strike, net_debit, option_type) ==
    IF option_type = "PUT" THEN short_strike - net_debit
    ELSE short_strike + net_debit

\* break_even of a debit position: both branches add the debit
DebitBreakEven(short_strike, net_debit, option_type) ==
    IF option_type = "PUT" THEN short_strike + net_debit
    ELSE short_strike + net_debit

\* (profit / capital) * 100 behind its guard capital > 0, in units of 0.01 %
ROI(profit, capital) ==
    IF capital > 0 THEN (profit * 100 * 100) \div capital ELSE 0

\* WeeklyROI without the scaling to a 7-day week
WeeklyROI_per_day(total_roi, short_dte) == total_roi \div short_dte

\* weekly_roi = total_roi / short_dte * 7
WeeklyROI(total_roi, short_dte) == (total_roi * 7) \div short_dte

\* annual_roi = weekly_roi * 52
AnnualROI(weekly_roi) == weekly_roi * 52

\* the profit the debit ROI of calculate_spread is taken from: max_profit, or
\* short_premium * 100 when max_profit is float('inf')
DebitProfitForROI(max_profit, short_premium) ==
    IF ~max_profit.inf THEN max_profit.v ELSE short_premium * 100

\* roll_trigger_price of a credit position: roll_trigger_loss is
\* net_credit * 0.30
CreditRollTrigger(short_strike, net_credit, option_type) ==
    IF option_type = "PUT" THEN short_strike + (net_credit * 30) \div 100
    ELSE short_strike - (net_credit * 30) \div 100

\* the local variables of calculate_spread after its computation section
\* (lines 914-1097), for inputs that passed validation and date parsing
CalcLocals(f, broker) ==
    LET spread_width == SpreadWidth(f.short_strike, f.long_strike)
        same_expiry == SameExpiry(f.short_expiry, f.long_expiry)
        short_dte == IF f.short_expiry # 0 THEN DTE(f.short_expiry) ELSE 7
        long_dte == IF f.long_expiry # 0 THEN DTE(f.long_expiry) ELSE short_dte
        naked == f.long_strike = 0 \/ f.long_premium = 0
        net0 == f.short_premium - f.long_premium
        spread_type == SpreadType(f.long_strike, f.long_premium, same_expiry,
                                  spread_width, net0 > 0, f.option_type)
        is_credit == IF naked THEN TRUE ELSE net0 > 0
        net_amount == IF naked THEN f.short_premium ELSE net0
        net_credit == IF is_credit THEN net_amount ELSE 0
        net_debit == IF is_credit THEN 0 ELSE Abs(net_amount)
        additional_margin ==
            IF is_credit THEN 0
            ELSE DebitAdditionalMargin(spread_width, same_expiry, f.long_premium,
                                       f.underlying_price, broker)
        investment == IF is_credit THEN 0 ELSE net_debit * 100
        total_capital == IF is_credit THEN 0 ELSE investment + additional_margin
        max_profit == IF is_credit THEN Fin(net_credit * 100)
                      ELSE DebitMaxProfit(spread_width, same_expiry, net_debit)
        margin == IF is_credit
                  THEN CreditMargin(spread_width, same_expiry, f.underlying_price, broker)
                  ELSE total_capital
        total_roi == IF is_credit THEN ROI(net_credit * 100, margin)
                     ELSE ROI(DebitProfitForROI(max_profit, f.short_premium), total_capital)
        weekly_roi == WeeklyROI(total_roi, short_dte)
    IN [spread_type |-> spread_type,
        spread_width |-> spread_width,
        same_expiry |-> same_expiry,
        short_dte |-> short_dte,
        long_dte |-> long_dte,
        is_credit |-> is_credit,
        net_credit |-> net_credit,
        net_debit |-> net_debit,
        max_profit |-> max_profit,
        max_loss |-> IF is_credit THEN CreditMaxLoss(spread_width, net_credit)
                     ELSE Fin(net_debit * 100),
        break_even |-> IF is_credit
                       THEN CreditBreakEven(f.short_strike, net_credit, f.option_type)
                       ELSE DebitBreakEven(f.short_strike, net_debit, f.option_type),
        additional_margin |-> additional_margin,
        investment |-> investment,
        total_capital |-> total_capital,
        margin |-> margin,
        total_roi |-> total_roi,
        weekly_roi |-> weekly_roi,
        annual_roi |-> AnnualROI(weekly_roi),
        roll_trigger_price |->
            IF is_credit
            THEN CreditRollTrigger(f.short_strike, net_credit, f.option_type)
            ELSE f.short_strike]

\* self.last_calc_result = {...} (lines 1238-1257)
CalcResult(f, l) ==
    [shortStrike |-> f.short_strike, shortPremium |-> f.short_premium,
     shortExpiry |-> f.short_expiry, shortDTE |-> l.short_dte,
     longStrike |-> f.long_strike, longPremium |-> f.long_premium,
     longExpiry |-> f.long_expiry, longDTE |-> l.long_dte,
     netCredit |-> IF l.is_credit THEN l.net_credit ELSE 0 - l.net_debit,
     isCredit |-> l.is_credit, margin |-> l.margin,
     maxProfit |-> l.max_profit, maxLoss |-> l.max_loss,
     breakEven |-> l.break_even, weeklyROI |-> l.weekly_roi,
     underlyingPrice |-> f.underlying_price,
     optionType |-> f.option_type, spreadType |-> l.spread_type]

\* the way calculate_spread ends for the fields f:
\*   "warning": a required field is empty or 0 (line 910), nothing computed;
\*   "error":   an exception reached the handler's except clauses - strptime
\*              on a malformed expiry (lines 922, 928), or the format
\*              specifier of line 1214 on the credit path;
\*   "ok":      the result text and last_calc_result were written.
\* locals holds the computed local variables when the computation section ran.
calculate_spread(f, broker) ==
    IF f.short_strike = 0 \/ f.short_premium = 0 \/ f.underlying_price = 0
    THEN [outcome |-> "warning", locals |-> None]
    ELSE IF f.short_expiry = BadDate \/ f.long_expiry = BadDate
    THEN [outcome |-> "error", locals |-> None]
    ELSE LET l == CalcLocals(f, broker)
         IN [outcome |-> IF l.is_credit THEN "error" ELSE "ok", locals |-> Some(l)]

(***************************************************************************)
(* calculate_spread_internal, the optimizer's copy of the computation.     *)
(* broker is self.broker_var.get().  A malformed expiry is caught inside   *)
(* and replaced by a default DTE.                                          *)
(***************************************************************************)
\* the spread kind of calculate_spread_internal (without the option type)
SpreadTypeInternal(same_expiry, spread_width, is_credit, option_type) ==
    IF same_expiry
    THEN IF spread_width = 0 THEN "Single"
         ELSE IF is_credit THEN "Vertical CREDIT"
         ELSE "Vertical DEBIT"
    ELSE IF spread_width = 0 THEN "Calendar Spread"
    ELSE IF is_credit THEN "Diagonal CREDIT"
    ELSE IF option_type = "CALL" THEN "PMCC"
    ELSE "PMCP"

calculate_spread_internal(short_strike, short_premium, short_expiry, long_strike, long_premium, long_expiry, underlying_price, option_type, broker) ==
    LET spread_width == SpreadWidth(short_strike, long_strike)
        same_expiry == SameExpiry(short_expiry, long_expiry)
        short_dte == IF short_expiry # 0 /\ short_expiry # BadDate
                     THEN DTE(short_expiry) ELSE 7
        long_dte == IF long_expiry # 0 /\ long_expiry # BadDate
                    THEN DTE(long_expiry) ELSE short_dte
        net_amount == short_premium - long_premium
        is_credit == net_amount > 0
        net_debit == Abs(net_amount)
        total_capital == net_debit * 100
                         + DebitAdditionalMargin(spread_width, same_expiry, long_premium,
                                                 underlying_price, broker)
        max_profit == IF is_credit THEN Fin(net_amount * 100)
                      ELSE DebitMaxProfit(spread_width, same_expiry, net_debit)
        margin == IF is_credit
                  THEN CreditMargin(spread_width, same_expiry, underlying_price, broker)
                  ELSE total_capital
        \* profit_for_roi = short_premium * 100 if not same_expiry else max_profit
        profit_for_roi == IF ~same_expiry THEN Fin(short_premium * 100) ELSE max_profit
        weekly_roi ==
            IF is_credit THEN WeeklyROI(ROI(net_amount * 100, margin), short_dte)
            ELSE IF margin > 0 /\ ~profit_for_roi.inf
            THEN WeeklyROI(ROI(profit_for_roi.v, margin), short_dte)
            ELSE 0
    IN [shortStrike |-> short_strike, shortPremium |-> short_premium,
        shortExpiry |-> short_expiry, shortDTE |-> short_dte,
        longStrike |-> long_strike, longPremium |-> long_premium,
        longExpiry |-> long_expiry, longDTE |-> long_dte,
        spreadWidth |-> spread_width,
        spreadType |-> SpreadTypeInternal(same_expiry, spread_width, is_credit, option_type),
        isCredit |-> is_credit,
        netCredit |-> IF is_credit THEN net_amount ELSE 0,
        netDebit |-> IF is_credit THEN 0 ELSE Abs(net_amount),
        maxProfit |-> max_profit,
        maxLoss |-> IF is_credit THEN CreditMaxLoss(spread_width, net_amount)
                    ELSE Fin(net_debit * 100),
        margin |-> margin,
        breakEven |-> IF is_credit
                      THEN CreditBreakEven(short_strike, net_amount, option_type)
                      ELSE short_strike + net_debit,
        weeklyROI |-> weekly_roi,
        underlyingPrice |-> underlying_price,
        optionType |-> option_type]

\* self.opt_data = {...} (lines 1471-1483), without the expiry indices
OptDataInit ==
    [short_strike |-> 0, short_expiry |-> 0, short_premium |-> 0,
     long_strike |-> 0, long_expiry |-> 0, long_premium |-> 0,
     underlying_price |-> 0, option_type |-> "CALL", original |-> None]

\* the text of a premium entry that does not parse as a number
BadText == 0 - 1

(***************************************************************************)
(* Inputs of the pricer and solver calls.                                  *)
(***************************************************************************)
SMin == 60
SMax == 140

\* direct pricer calls: valid and invalid S, K, sigma; T before, at and after expiry
PricerS == {-5, 0, 90, 100, 110}
PricerK == {-100, 0, 100}
PricerDays == {-1, 0, 90}
PricerSigma == {-30, 0, 30}
\* rate_var, "0.05"
Rate == 5

\* solver calls: valid K and sigma; at T = 90/365 and sigma = 0.30 delta is
\* strictly monotonic in S at the 1e-6 resolution over both brackets
SolverK == {100}
SolverDays == {0, 90}
SolverSigma == {30}
SGrid == SMin .. SMax

PlainDelta(S, K, Tdays, sigma, is_call) ==
    IF is_call THEN black_scholes_delta_call(S, K, Tdays, Rate, sigma).val
    ELSE black_scholes_delta_put(S, K, Tdays, Rate, sigma).val

\* the ladder of calculate_exit_prices, the ends of the delta range, and the
\* deltas of the grid prices (for round trips)
LadderTargets(is_call) ==
    IF is_call THEN {150000, 200000, 250000, 300000, 400000, 500000}
    ELSE {-150000, -200000, -250000, -300000, -400000, -500000}

SolverTargets(K, Tdays, sigma, is_call) ==
    LadderTargets(is_call) \cup {-PSC, 0, PSC}
        \cup {PlainDelta(S0, K, Tdays, sigma, is_call) : S0 \in SGrid}

(***************************************************************************)
(* The calculator and optimizer tabs.                                      *)
(***************************************************************************)
\* short and long strike: no strikes, long only, short only, a 10.00 wide
\* and a zero-width pair at 450, and a 5.00 wide pair at 100
CalcStrikes == {<<0, 0>>, <<0, 44000>>, <<45000, 0>>, <<45000, 44000>>,
                <<45000, 45000>>, <<10000, 9500>>}
CalcShortPremiums == {0, 200}
CalcLongPremiums == {0, 80, 200, 300}
\* short and long expiry: same, different, long or both empty, short empty,
\* short expiring tomorrow, either malformed
CalcExpiries == {<<30, 30>>, <<30, 60>>, <<30, 0>>, <<0, 0>>, <<0, 30>>,
                 <<1, 30>>, <<BadDate, 30>>, <<30, BadDate>>}
CalcUnderlyings == {0, 10000, 45000}
OptionTypes == {"PUT", "CALL"}
Brokers == {"IBKR", "SAXO"}
\* what the user types into a premium entry of the optimizer
OptEntryTexts == {BadText, 80}

CalculateSpread ==
    LET run == calculate_spread(calc_fields, broker_var)
    IN /\ calc_run' = Some(run)
       /\ last_calc_result' =
              IF run.outcome = "ok"
              THEN Some(CalcResult(calc_fields, The(run.locals)))
              ELSE last_calc_result
       /\ UNCHANGED <<roll_vars, bal_vars, exit_vars, fetch_vars, pricer, solver, calc_fields, broker_var,
                      opt_data, opt_entries, opt_new_calc>>

\* new_calc of recalculate_optimizer for the optimizer data d
NewCalc(d, broker) ==
    calculate_spread_internal(d.short_strike, d.short_premium, d.short_expiry,
                              d.long_strike, d.long_premium, d.long_expiry,
                              d.underlying_price, d.option_type, broker)

\* opt_data after the try block of recalculate_optimizer: the premiums are
\* read from the entries in order, and the first float() that fails ends it
ReadEntries(d, e) ==
    IF e.short = BadText THEN d
    ELSE IF e.long = BadText THEN [d EXCEPT !.short_premium = e.short]
    ELSE [d EXCEPT !.short_premium = e.short, !.long_premium = e.long]

\* load_from_calculator, with the recalculate_optimizer call that ends it.
\* The premium entries receive the premiums formatted to two decimals, which
\* is exact for premiums in cents.  The handler returns after a warning when
\* there is no last_calc_result.
LoadFromCalculator ==
    /\ IsSome(last_calc_result)
    /\ LET calc == The(last_calc_result)
           d == [short_strike |-> calc.shortStrike, short_expiry |-> calc.shortExpiry,
                 short_premium |-> calc.shortPremium, long_strike |-> calc.longStrike,
                 long_expiry |-> calc.longExpiry, long_premium |-> calc.longPremium,
                 underlying_price |-> calc.underlyingPrice,
                 option_type |-> calc.optionType, original |-> Some(calc)]
           e == [short |-> calc.shortPremium, long |-> calc.longPremium]
       IN /\ opt_entries' = e
          /\ opt_data' = ReadEntries(d, e)
          /\ opt_new_calc' = Some(NewCalc(ReadEntries(d, e), broker_var))
    /\ UNCHANGED <<roll_vars, bal_vars, exit_vars, fetch_vars, pricer, solver, calc_fields, broker_var, calc_run, last_calc_result>>

\* the user types into opt_short_premium_entry or opt_long_premium_entry
EditOptPremium ==
    /\ \E leg \in {"short", "long"}, text \in OptEntryTexts :
          opt_entries' = [opt_entries EXCEPT ![leg] = text]
    /\ UNCHANGED <<roll_vars, bal_vars, exit_vars, fetch_vars, pricer, solver, calc_fields, broker_var, calc_run,
                   last_calc_result, opt_data, opt_new_calc>>

RecalculateOptimizer ==
    /\ opt_data' = ReadEntries(opt_data, opt_entries)
    /\ opt_new_calc' = Some(NewCalc(ReadEntries(opt_data, opt_entries), broker_var))
    /\ UNCHANGED <<roll_vars, bal_vars, exit_vars, fetch_vars, pricer, solver, calc_fields, broker_var, calc_run,
                   last_calc_result, opt_entries>>

\* the tabs after construction: empty fields, PUT, IBKR
EmptyFields ==
    [short_strike |-> 0, short_premium |-> 0, short_expiry |-> 0,
     long_strike |-> 0, long_premium |-> 0, long_expiry |-> 0,
     underlying_price |-> 0, option_type |-> "PUT"]

NoResults ==
    /\ calc_run = None
    /\ last_calc_result = None
    /\ opt_data = OptDataInit
    /\ opt_entries = [short |-> 0, long |-> 0]
    /\ opt_new_calc = None

IdleCalc ==
    /\ calc_fields = EmptyFields
    /\ broker_var = "IBKR"
    /\ NoResults

(***************************************************************************)
(* The roll analysis.                                                      *)
(*                                                                         *)
(* Underlying and strikes are in whole dollars, the premium in cents per   *)
(* share, total_invested, received_credit, cost and total_cost in cents,   *)
(* break_even in cents per share, prob_profit in units of 0.1 % (it is     *)
(* rounded to one decimal), score in units of 0.001.  In a scenario the    *)
(* text '-' of new_strike, new_expiry and break_even is None.  The DTE     *)
(* field holds 0 when empty, BadText when it is not an integer.            *)
(* scipy is taken to be installed (SCIPY_AVAILABLE): the pricer cannot     *)
(* run without it.                                                         *)
(***************************************************************************)
\* _calc_be_for_roll, with the cost given for the whole contract
calc_be_for_roll(option_type, strike, total_cost) ==
    IF option_type = "PUT" THEN strike * 100 - total_cost \div 100
    ELSE strike * 100 + total_cost \div 100

\* z_score of _estimate_probability in units of 1e-4:
\* ((underlying - strike) / underlying) / (0.20 / sqrt(252) * sqrt(dte))
ZScore(underlying, strike, dte) ==
    IF dte > 0
    THEN ((underlying - strike) * 50 * Isqrt(252000000 \div dte)) \div underlying
    ELSE 0

\* _estimate_probability: round(norm.cdf(-z) * 100, 1) for a PUT,
\* round((1 - norm.cdf(-z)) * 100, 1) for a CALL
estimate_probability(option_type, underlying, strike, dte) ==
    LET c == NormCdf(0 - ZScore(underlying, strike, dte))
    IN IF option_type = "PUT" THEN (c + 500) \div 1000
       ELSE ((PSC - c) + 500) \div 1000

\* NewStrikes with the PUT strikes lowered as well
NewStrikes_all_lowered(option_type, current_strike) ==
    <<current_strike - 3, current_strike - 5, current_strike - 7, current_strike - 10>>

\* the strikes of the strike rolls: closer to the money
NewStrikes(option_type, current_strike) ==
    IF option_type = "PUT"
    THEN <<current_strike + 3, current_strike + 5, current_strike + 7, current_strike + 10>>
    ELSE <<current_strike - 3, current_strike - 5, current_strike - 7, current_strike - 10>>

\* StrikeRollPremium that scales down towards the money and up away from it
StrikeRollPremium_inverted(underlying, current_strike, current_premium, new_strike) ==
    LET current_distance == Abs(underlying - current_strike)
        new_distance == Abs(underlying - new_strike)
    IN IF new_distance < current_distance
       THEN Max2(10, (current_premium * (underlying - (current_distance - new_distance) * 5))
                     \div underlying)
       ELSE (current_premium * (underlying + (new_distance - current_distance) * 10))
            \div underlying

\* estimated_new_premium of a strike roll
StrikeRollPremium(underlying, current_strike, current_premium, new_strike) ==
    LET current_distance == Abs(underlying - current_strike)
        new_distance == Abs(underlying - new_strike)
    IN IF new_distance < current_distance
       THEN (current_premium * (underlying + (current_distance - new_distance) * 10))
            \div underlying
       ELSE Max2(10, (current_premium * (underlying - (new_distance - current_distance) * 5))
                     \div underlying)

Scenario(action, new_strike, new_expiry, cost, total_cost, break_even, prob_profit) ==
    [action |-> action, new_strike |-> new_strike, new_expiry |-> new_expiry,
     cost |-> cost, total_cost |-> total_cost, break_even |-> break_even,
     prob_profit |-> prob_profit, score |-> 0]

\* the scenario "DRZAT" (hold)
HoldScenario(f, dte) ==
    Scenario("DRZAT", Some(f.current_strike), Some(f.current_expiry), 0,
             f.total_invested - f.received_credit,
             Some(calc_be_for_roll(f.option_type, f.current_strike,
                                   f.total_invested - f.received_credit)),
             estimate_probability(f.option_type, f.underlying, f.current_strike, dte))

\* CloseScenario with a break-even P/L counted as a loss
CloseScenario_strict(f) ==
    LET realized_pnl == f.received_credit + f.current_premium * 100 - f.total_invested
    IN Scenario("PREDAT", None, None, 0 - f.current_premium * 100, 0, None,
                IF realized_pnl > 0 THEN 1000 ELSE 0)

\* the scenario "PREDAT" (close)
CloseScenario(f) ==
    LET realized_pnl == f.received_credit + f.current_premium * 100 - f.total_invested
    IN Scenario("PREDAT", None, None, 0 - f.current_premium * 100, 0, None,
                IF realized_pnl >= 0 THEN 1000 ELSE 0)

StrikeRollScenario(f, dte, new_strike) ==
    LET estimated_new_premium ==
            StrikeRollPremium(f.underlying, f.current_strike, f.current_premium, new_strike)
        roll_cost == (estimated_new_premium - f.current_premium) * 100
        new_total_cost == f.total_invested - f.received_credit + roll_cost
    IN Scenario("ROLL strike", Some(new_strike), Some(f.current_expiry), roll_cost,
                new_total_cost,
                Some(calc_be_for_roll(f.option_type, new_strike, new_total_cost)),
                estimate_probability(f.option_type, f.underlying, new_strike, dte))

\* the strike rolls, without the strikes that are not positive
RECURSIVE StrikeRolls(_, _, _, _)
StrikeRolls(f, dte, new_strikes, i) ==
    IF i > Len(new_strikes) THEN << >>
    ELSE IF new_strikes[i] <= 0 THEN StrikeRolls(f, dte, new_strikes, i + 1)
    ELSE <<StrikeRollScenario(f, dte, new_strikes[i])>>
         \o StrikeRolls(f, dte, new_strikes, i + 1)

\* roll_cost = (current_premium * (1 + extra_days * 0.007) - current_premium) * 100,
\* in cents: current_premium * extra_days * 0.7
ExpiryRollScenario(f, new_expiry) ==
    LET extra_days == new_expiry - f.current_expiry
        roll_cost == (f.current_premium * extra_days * 7) \div 10
        new_total_cost == f.total_invested - f.received_credit + roll_cost
    IN Scenario("ROLL expiry", Some(f.current_strike), Some(new_expiry), roll_cost,
                new_total_cost,
                Some(calc_be_for_roll(f.option_type, f.current_strike, new_total_cost)),
                estimate_probability(f.option_type, f.underlying, f.current_strike,
                                     DTE(new_expiry)))

\* available_expiries.index(current_expiry), or 0 when it is not in the list
\* (the code's current_idx + 1)
RECURSIVE IndexAfter(_, _, _)
IndexAfter(expiries, current_expiry, i) ==
    IF i > Len(expiries) THEN 0
    ELSE IF expiries[i] = current_expiry THEN i
    ELSE IndexAfter(expiries, current_expiry, i + 1)

\* the expiry rolls: up to three expiries after the current one; strptime of
\* an empty or malformed current expiry raises, and the roll is skipped
RECURSIVE ExpiryRolls(_, _, _)
ExpiryRolls(f, i, last) ==
    IF i > last THEN << >>
    ELSE IF f.current_expiry = 0 \/ f.current_expiry = BadDate
    THEN ExpiryRolls(f, i + 1, last)
    ELSE <<ExpiryRollScenario(f, f.available_expiries[i])>> \o ExpiryRolls(f, i + 1, last)

\* Scored without the exception for scenarios that have no break-even
Scored_every_scenario(s) ==
    [s EXCEPT !.score =
        IF s.prob_profit > 0
        THEN (s.prob_profit * 1000000)
             \div Max2(IF s.total_cost # 0 THEN Abs(s.total_cost) ELSE 100, 100)
        ELSE s.prob_profit * 100]

\* s['score'] (lines 2670-2676): risk is abs(total_cost), or 1 when it is 0
Scored(s) ==
    [s EXCEPT !.score =
        IF s.prob_profit > 0 /\ s.break_even # None
        THEN (s.prob_profit * 1000000)
             \div Max2(IF s.total_cost # 0 THEN Abs(s.total_cost) ELSE 100, 100)
        ELSE s.prob_profit * 100]

RECURSIVE ScoreAll(_, _)
ScoreAll(scenarios, i) ==
    IF i > Len(scenarios) THEN << >>
    ELSE <<Scored(scenarios[i])>> \o ScoreAll(scenarios, i + 1)

\* ComesBefore for an ascending sort
ComesBefore_ascending(a, s) == a.score <= s.score

\* reverse=True: a stays before s when its score is not lower
ComesBefore(a, s) == a.score >= s.score

\* s put into a list sorted by descending score, after the scenarios of the
\* same score (list.sort is stable)
RECURSIVE Insert(_, _)
Insert(sorted, s) ==
    IF sorted = << >> THEN <<s>>
    ELSE IF ComesBefore(Head(sorted), s)
    THEN <<Head(sorted)>> \o Insert(Tail(sorted), s)
    ELSE <<s>> \o sorted

\* scenarios.sort(key=lambda x: x['score'], reverse=True)
RECURSIVE SortByScore(_, _)
SortByScore(scenarios, n) ==
    IF n = 0 THEN << >>
    ELSE Insert(SortByScore(scenarios, n - 1), scenarios[n])

\* analyze_roll_scenarios: the way it ends, and the sorted scenarios
analyze_roll_scenarios(f) ==
    IF f.underlying = 0 \/ f.current_strike = 0 \/ f.current_premium = 0
    THEN [outcome |-> "warning", scenarios |-> << >>]
    ELSE IF f.current_dte = BadText
    THEN [outcome |-> "error", scenarios |-> << >>]
    ELSE LET dte == IF f.current_dte = 0 THEN 14 ELSE f.current_dte
             first == IndexAfter(f.available_expiries, f.current_expiry, 1) + 1
             last == IF first + 2 <= Len(f.available_expiries) THEN first + 2
                     ELSE Len(f.available_expiries)
             scenarios ==
                 <<HoldScenario(f, dte), CloseScenario(f)>>
                 \o StrikeRolls(f, dte, NewStrikes(f.option_type, f.current_strike), 1)
                 \o ExpiryRolls(f, first, last)
             scored == ScoreAll(scenarios, 1)
         IN [outcome |-> "ok", scenarios |-> SortByScore(scored, Len(scored))]

RollUnderlyings == {0, 100}
RollStrikes == {0, 8, 95}
RollPremiums == {0, 5, 150}
RollExpiries == {0, BadDate, 30, 45}
RollDTEs == {0, BadText, 30}
RollInvested == {0, 50000}
RollCredits == {0, 35000}
AvailableExpiries == {<< >>, <<30, 60, 90>>}

\* the button "analyze": analyze_roll_scenarios with _display_roll_scenarios
\* and _show_roll_recommendation; best is scenarios[0], starred are the rows
\* that compare equal to roll_scenarios[0]
AnalyzeRollScenarios ==
    LET run == analyze_roll_scenarios(roll_fields)
    IN /\ roll_run' = Some([outcome |-> run.outcome,
                            best |-> IF run.outcome = "ok" THEN Some(run.scenarios[1])
                                     ELSE None,
                            starred |-> IF run.outcome = "ok"
                                        THEN {i \in 1 .. Len(run.scenarios) :
                                                 run.scenarios[i] = run.scenarios[1]}
                                        ELSE {}])
       /\ roll_scenarios' = IF run.outcome = "ok" THEN run.scenarios ELSE roll_scenarios
       /\ UNCHANGED <<pricer, solver, calc_vars, bal_vars, exit_vars, fetch_vars, roll_fields>>

\* roll_update_dte: the read-only DTE field is set from the expiry field as it
\* is now, max(0, (exp_date - datetime.now()).days), or to "?" when the
\* expiry does not parse; an empty expiry leaves the field alone
RollUpdateDte ==
    /\ roll_fields.current_expiry # 0
    /\ roll_fields' =
          [roll_fields EXCEPT !.current_dte =
              IF roll_fields.current_expiry = BadDate THEN BadText
              ELSE Max2(0, roll_fields.current_expiry - 1)]
    /\ UNCHANGED <<pricer, solver, calc_vars, bal_vars, exit_vars, fetch_vars, roll_run, roll_scenarios>>

\* the roll tab after construction
IdleRoll ==
    /\ roll_fields = [underlying |-> 0, current_strike |-> 0, current_premium |-> 0,
                      current_expiry |-> 0, current_dte |-> 0, total_invested |-> 0,
                      received_credit |-> 0, option_type |-> "PUT",
                      available_expiries |-> << >>]
    /\ roll_run = None
    /\ roll_scenarios = << >>

(***************************************************************************)
(* The balancer.                                                           *)
(*                                                                         *)
(* Underlying and strikes are in whole dollars: the strike grids of        *)
(* find_strike_for_delta are rounded down to whole dollars, and the root   *)
(* finder stops at a bracket of one dollar, so round(root, 2) changes      *)
(* nothing.  Deltas are in units of 1e-6, iv in percent.  The strike       *)
(* field holds 0 when empty and BadText when it is not a number; the       *)
(* expiry field 0 when empty, BadDate when malformed, n for the date n     *)
(* days after today.                                                       *)
(***************************************************************************)
\* T in days: max(1, (exp_date - date.today()).days), 7 when strptime raises
BalancerDays(expiry) ==
    IF expiry = BadDate \/ expiry = 0 THEN 7 ELSE Max2(1, expiry)

\* delta_for_K that prices every leg as a call
delta_for_K_call_only(K, q) ==
    black_scholes_delta_call(q.underlying, K, q.Tdays, q.r, q.iv)

\* def delta_for_K(K), q holding the arguments of find_strike_for_delta
delta_for_K(K, q) ==
    IF q.option_type = "CALL"
    THEN black_scholes_delta_call(q.underlying, K, q.Tdays, q.r, q.iv)
    ELSE black_scholes_delta_put(q.underlying, K, q.Tdays, q.r, q.iv)

\* delta_for_K(K) - target_delta
StrikeDiff(K, q) == delta_for_K(K, q).val - q.target_delta

\* low = max(0.01, underlying * 0.2), high = underlying * 3.0
StrikeLow(underlying) == Max2(1, (underlying * 2) \div 10)
StrikeHigh(underlying) == underlying * 3

\* low + (high - low) * i / steps
GridStrike(underlying, i, steps) ==
    StrikeLow(underlying)
    + ((StrikeHigh(underlying) - StrikeLow(underlying)) * i) \div steps

\* brentq on a bracket with a sign change
RECURSIVE BisectStrike(_, _, _)
BisectStrike(lo, hi, q) ==
    IF hi - lo <= 1
    THEN IF Abs(StrikeDiff(hi, q)) < Abs(StrikeDiff(lo, q)) THEN hi ELSE lo
    ELSE LET mid == (lo + hi) \div 2
             fm == StrikeDiff(mid, q)
         IN IF fm = 0 THEN mid
            ELSE IF Sign(fm) # Sign(StrikeDiff(lo, q)) THEN BisectStrike(lo, mid, q)
            ELSE BisectStrike(mid, hi, q)

\* fvals = [delta_for_K(k) - target_delta for k in ks], the list of steps + 1
\* values, indexed from 1
StrikeDiffs(q, steps) ==
    SubSeq([i \in 1..(steps + 1) |-> StrikeDiff(GridStrike(q.underlying, i - 1, steps), q)],
           1, steps + 1)

\* the fallback loop over the values diffs: the first index with the least
\* abs(delta_for_K(k) - target_delta)
FirstLeast(diffs) ==
    CHOOSE i \in 1..Len(diffs) :
        \A j \in 1..Len(diffs) :
            Abs(diffs[i]) < Abs(diffs[j]) \/ (Abs(diffs[i]) = Abs(diffs[j]) /\ i <= j)

\* the strike the fallback loop ends with
NearestInGrid(q) ==
    CHOOSE k \in {GridStrike(q.underlying, FirstLeast(diffs) - 1, 200) :
                     diffs \in {StrikeDiffs(q, 200)}} : TRUE

\* GridFallback that gives up: no strike
GridFallback_none(q) == None

\* lines 2345-2353: return round(best_k, 2) if best_k else None; best_k is
\* a strike of the grid, at least low > 0
GridFallback(q) == Some(NearestInGrid(q))

\* the first bracket of the scan that starts at a zero or holds a sign
\* change; 0 when there is none
FirstBracket(fvals) ==
    LET hits == {i \in 1..(Len(fvals) - 1) :
                    fvals[i] = 0 \/ Sign(fvals[i]) * Sign(fvals[i + 1]) < 0}
    IN IF hits = {} THEN 0 ELSE CHOOSE i \in hits : \A j \in hits : i <= j

\* what the scan over fvals returns: ks[i] at a zero, the root of the first
\* bracket with a sign change, else the fallback
ScanResult(q, fvals, first) ==
    IF first = 0 THEN GridFallback(q)
    ELSE IF fvals[first] = 0 THEN Some(GridStrike(q.underlying, first - 1, 60))
    ELSE Some(BisectStrike(GridStrike(q.underlying, first - 1, 60),
                           GridStrike(q.underlying, first, 60), q))

\* the 60-step scan, then the fallback
ScanBrackets(q) ==
    CHOOSE res \in {ScanResult(q, fvals, FirstBracket(fvals)) :
                       fvals \in {StrikeDiffs(q, 60)}} : TRUE

\* find_strike_for_delta for the arguments q
StrikeSearch(q) ==
    IF delta_for_K(StrikeLow(q.underlying), q).kind # "value"
    THEN delta_for_K(StrikeLow(q.underlying), q)
    ELSE Value(ScanBrackets(q), TRUE)

\* returns Value(Some(K)), or the exception raised by delta_for_K
find_strike_for_delta(option_type, target_delta, expiry, iv, r, underlying) ==
    CHOOSE res \in {StrikeSearch(q) :
                       q \in {[option_type |-> option_type, target_delta |-> target_delta,
                               Tdays |-> BalancerDays(expiry), iv |-> iv, r |-> r,
                               underlying |-> underlying]}} : TRUE

\* lines 2397-2423: the proposal reported for the strike found
BalancerReport(f, r, long_delta, opp_strike) ==
    LET Tdays == BalancerDays(f.expiry)
        opp_type == IF f.long_type = "CALL" THEN "PUT" ELSE "CALL"
        opp_price == IF opp_type = "CALL"
                     THEN black_scholes_call_price(f.underlying, opp_strike, Tdays, r, f.iv)
                     ELSE black_scholes_put_price(f.underlying, opp_strike, Tdays, r, f.iv)
        opp_delta == IF opp_type = "CALL"
                     THEN black_scholes_delta_call(f.underlying, opp_strike, Tdays, r, f.iv)
                     ELSE black_scholes_delta_put(f.underlying, opp_strike, Tdays, r, f.iv)
    IN [outcome |-> "ok",
        analysis |-> Some(
           [long |-> [type |-> f.long_type, strike |-> f.long_strike,
                      delta |-> long_delta, expiry |-> f.expiry],
            opposite |-> [type |-> opp_type, strike |-> opp_strike,
                          est_price |-> opp_price.val,
                          delta |-> opp_delta.val, expiry |-> f.expiry],
            target_delta |-> 0 - long_delta,
            delta_sum |-> long_delta + opp_delta.val])]

\* lines 2388-2395: the search for the opposite strike and its result
BalancerSearch(f, r, long_delta, found) ==
    IF found.kind # "value" THEN [outcome |-> "error", analysis |-> None]
    ELSE IF found.val = None THEN [outcome |-> "failure", analysis |-> None]
    ELSE BalancerReport(f, r, long_delta, The(found.val))

\* lines 2380-2389: delta of the LONG leg, target_delta = -long_delta
BalancerTarget(f, r, long_delta) ==
    IF long_delta.kind # "value" THEN [outcome |-> "error", analysis |-> None]
    ELSE CHOOSE res \in
            {BalancerSearch(f, r, long_delta.val, found) :
                found \in {find_strike_for_delta(
                              IF f.long_type = "CALL" THEN "PUT" ELSE "CALL",
                              0 - long_delta.val, f.expiry, f.iv, r, f.underlying)}} : TRUE

\* analyze_balancer for the fields f: the way it ends and what it stores
\*   "warning": strike, expiry or underlying missing;
\*   "error":   an exception reached the handler's except clause;
\*   "failure": find_strike_for_delta returned nothing;
\*   "ok":      a proposal was reported and stored.
analyze_balancer(f, r) ==
    IF f.long_strike = 0 \/ f.expiry = 0 \/ f.underlying <= 0
    THEN [outcome |-> "warning", analysis |-> None]
    ELSE IF f.long_strike = BadText
    THEN [outcome |-> "error", analysis |-> None]
    ELSE CHOOSE res \in
            {BalancerTarget(f, r, long_delta) :
                long_delta \in
                   {IF f.long_type = "CALL"
                    THEN black_scholes_delta_call(f.underlying, f.long_strike,
                                                  BalancerDays(f.expiry), r, f.iv)
                    ELSE black_scholes_delta_put(f.underlying, f.long_strike,
                                                 BalancerDays(f.expiry), r, f.iv)}} : TRUE

BalUnderlyings == {0, 150}
BalStrikes == {0, BadText, 40, 120, 150, 163, 400}
BalExpiries == {0, BadDate, 90, 365}
BalIVs == {0, 30}

\* f"{opp_strike:.2f}": the opposite-strike field shows two decimals, so the
\* field and the strike kept in bal_last_analysis are in cents; the field
\* holds 0 when empty and BadText when it is not a number
StrikeText(strike) == 100 * strike

\* the button "analyze" of the balancer; the stored analysis is the dict of
\* lines 2420-2423, without the reported target and sum.  Setting the
\* opposite-strike field runs on_bal_opposite_strike_changed on the analysis
\* stored before, which line 2420 then replaces
AnalyzeBalancer ==
    \E run \in {analyze_balancer(bal_fields, Rate)} :
       /\ bal_run' = Some(run)
       /\ IF run.outcome = "ok"
          THEN /\ bal_last_analysis' =
                     Some([long |-> The(run.analysis).long,
                           opposite |-> [The(run.analysis).opposite EXCEPT
                                            !.strike = StrikeText(@)]])
               /\ bal_opposite' = [strike |-> StrikeText(The(run.analysis).opposite.strike),
                                   premium |-> 0,
                                   type |-> The(run.analysis).opposite.type]
          ELSE UNCHANGED <<bal_last_analysis, bal_opposite>>
       /\ UNCHANGED <<pricer, solver, calc_vars, roll_vars, exit_vars, fetch_vars, bal_fields>>

\* float(text) succeeds
IsNumber(text) == text # 0 /\ text # BadText

\* on_bal_opposite_strike_changed, the trace on bal_opposite_strike_var: the
\* analysis after the field was set to text
on_bal_opposite_strike_changed(text, analysis) ==
    IF IsNumber(text) /\ analysis # None
    THEN Some([The(analysis) EXCEPT !.opposite.strike = text])
    ELSE analysis

\* what the user types into the opposite-strike field: nothing, no number,
\* 120.00, 150.00, 163.75
OppositeTexts == {0, BadText, 12000, 15000, 16375}

\* the user edits the opposite-strike field
EditOppositeStrike ==
    /\ \E text \in OppositeTexts :
          /\ bal_opposite' = [bal_opposite EXCEPT !.strike = text]
          /\ bal_last_analysis' = on_bal_opposite_strike_changed(text, bal_last_analysis)
    /\ UNCHANGED <<pricer, solver, calc_vars, roll_vars, exit_vars, fetch_vars,
                   bal_fields, bal_run>>

\* val of set_opposite_strike_half and set_opposite_strike_integer: the
\* field, the stored strike when the field is no number, None when there is
\* no analysis either (the handler returns)
OppositeVal(field, analysis) ==
    IF IsNumber(field) THEN Some(field)
    ELSE IF analysis # None THEN Some(The(analysis).opposite.strike)
    ELSE None

\* math.floor(val) + 0.5 and math.ceil(val), in cents
FloorHalf(val) == (val \div 100) * 100 + 50
Ceil(val) == 0 - (((0 - val) \div 100) * 100)

\* the highest strike the buttons are followed to, in cents
MaxOppositeText == 20000

\* the button "-> .50"
SetOppositeStrikeHalf ==
    /\ OppositeVal(bal_opposite.strike, bal_last_analysis) # None
    /\ FloorHalf(The(OppositeVal(bal_opposite.strike, bal_last_analysis))) <= MaxOppositeText
    /\ \E new \in {FloorHalf(The(OppositeVal(bal_opposite.strike, bal_last_analysis)))} :
          /\ bal_opposite' = [bal_opposite EXCEPT !.strike = new]
          /\ bal_last_analysis' = on_bal_opposite_strike_changed(new, bal_last_analysis)
    /\ UNCHANGED <<pricer, solver, calc_vars, roll_vars, exit_vars, fetch_vars,
                   bal_fields, bal_run>>

\* the button "-> .00"
SetOppositeStrikeInteger ==
    /\ OppositeVal(bal_opposite.strike, bal_last_analysis) # None
    /\ Ceil(The(OppositeVal(bal_opposite.strike, bal_last_analysis))) <= MaxOppositeText
    /\ \E new \in {Ceil(The(OppositeVal(bal_opposite.strike, bal_last_analysis)))} :
          /\ bal_opposite' = [bal_opposite EXCEPT !.strike = new]
          /\ bal_last_analysis' = on_bal_opposite_strike_changed(new, bal_last_analysis)
    /\ UNCHANGED <<pricer, solver, calc_vars, roll_vars, exit_vars, fetch_vars,
                   bal_fields, bal_run>>

\* the balancer tab after construction
IdleBalancer ==
    /\ bal_fields = [long_type |-> "CALL", long_strike |-> 0, expiry |-> 0,
                     underlying |-> 0, iv |-> 18]
    /\ bal_run = None
    /\ bal_last_analysis = None
    /\ bal_opposite = [strike |-> 0, premium |-> 0, type |-> "PUT"]

(***************************************************************************)
(* The exit prices.                                                        *)
(*                                                                         *)
(* Strike and underlying are in whole dollars, iv in percent, deltas in    *)
(* units of 1e-6, option prices in cents.  The strike and iv fields hold   *)
(* BadText when float() rejects them (an empty strike included); the       *)
(* expiry field holds 0 when empty, BadDate when malformed, n for the date *)
(* n days after today, so that T = n / 365.                                *)
(***************************************************************************)
\* delta_targets with their action texts; the PUT targets are the negatives
DeltaTargets ==
    <<[delta |-> 150000, action |-> ""], [delta |-> 200000, action |-> ""],
      [delta |-> 250000, action |-> "Pozor"], [delta |-> 300000, action |-> "ROLL"],
      [delta |-> 400000, action |-> ""], [delta |-> 500000, action |-> "STOP"]>>

\* the target of a CALL, or of a PUT
SignedTarget(delta, is_call) == IF is_call THEN delta ELSE 0 - delta

\* get_option_price
get_option_price(S, K, Tdays, r, sigma, is_call) ==
    IF is_call THEN black_scholes_call_price(S, K, Tdays, r, sigma)
    ELSE black_scholes_put_price(S, K, Tdays, r, sigma)

\* the solves of the ladder, in the order of delta_targets
LadderSolves(f, r) ==
    <<find_underlying_for_delta(SignedTarget(DeltaTargets[1].delta, f.is_call), f.strike, f.expiry, r, f.iv, f.is_call),
      find_underlying_for_delta(SignedTarget(DeltaTargets[2].delta, f.is_call), f.strike, f.expiry, r, f.iv, f.is_call),
      find_underlying_for_delta(SignedTarget(DeltaTargets[3].delta, f.is_call), f.strike, f.expiry, r, f.iv, f.is_call),
      find_underlying_for_delta(SignedTarget(DeltaTargets[4].delta, f.is_call), f.strike, f.expiry, r, f.iv, f.is_call),
      find_underlying_for_delta(SignedTarget(DeltaTargets[5].delta, f.is_call), f.strike, f.expiry, r, f.iv, f.is_call),
      find_underlying_for_delta(SignedTarget(DeltaTargets[6].delta, f.is_call), f.strike, f.expiry, r, f.iv, f.is_call)>>

\* the rows inserted for the solves from index i on: "if S_target:" leaves
\* out the targets without a result
RECURSIVE LadderRows(_, _, _, _)
LadderRows(f, r, solves, i) ==
    IF i > Len(solves) THEN << >>
    ELSE IF solves[i] = None THEN LadderRows(f, r, solves, i + 1)
    ELSE <<CHOOSE row \in
              {[delta |-> SignedTarget(DeltaTargets[i].delta, f.is_call),
                S_target |-> S_target,
                opt_price |-> opt_price.val,
                action |-> DeltaTargets[i].action] :
                  S_target \in {The(solves[i])},
                  opt_price \in {get_option_price(The(solves[i]), f.strike, f.expiry, r,
                                                  f.iv, f.is_call)}} : TRUE>>
         \o LadderRows(f, r, solves, i + 1)

\* the solves for alert_delta, roll_delta and stop_delta (0.25, 0.30, 0.50)
ThresholdSolves(f, r) ==
    <<find_underlying_for_delta(SignedTarget(250000, f.is_call), f.strike, f.expiry, r, f.iv, f.is_call),
      find_underlying_for_delta(SignedTarget(300000, f.is_call), f.strike, f.expiry, r, f.iv, f.is_call),
      find_underlying_for_delta(SignedTarget(500000, f.is_call), f.strike, f.expiry, r, f.iv, f.is_call)>>

\* lines 3512-3549: the table is filled, the text is deleted, and the
\* recommendation is formatted with {alert_price:.2f}, {roll_price:.2f} and
\* {stop_price:.2f}; formatting None raises TypeError, which the handler's
\* "except ValueError" does not catch
ExitReport(rows, prices) ==
    IF prices[1] = None \/ prices[2] = None \/ prices[3] = None
    THEN [outcome |-> "unhandled", tree |-> Some(rows), text |-> Some(None)]
    ELSE [outcome |-> "ok", tree |-> Some(rows),
          text |-> Some(Some([alert |-> prices[1], roll |-> prices[2],
                              stop |-> prices[3]]))]

\* calculate_exit_prices for the fields f: the way it ends, the new rows of
\* the table and the new text, None where the widget is left as it was
\*   "error":     a dialog - float() of the strike or iv failed, the expiry
\*                is empty or strptime failed;
\*   "unhandled": an exception left the handler;
\*   "ok":        table and recommendation written.
calculate_exit_prices(f, r) ==
    IF f.strike = BadText \/ f.iv = BadText \/ f.expiry = 0 \/ f.expiry = BadDate
    THEN [outcome |-> "error", tree |-> None, text |-> None]
    ELSE CHOOSE res \in
            {ExitReport(LadderRows(f, r, solves, 1), prices) :
                solves \in {LadderSolves(f, r)}, prices \in {ThresholdSolves(f, r)}} : TRUE

ExitStrikes == {BadText, 100, 120}
ExitIVs == {0, 18, 30}
ExitExpiries == {0, BadDate, 30, 90, 365}

\* the button "calculate" of the exit tab
CalculateExitPrices ==
    \E run \in {calculate_exit_prices(exit_fields, Rate)} :
       /\ exit_run' = Some(run.outcome)
       /\ exit_tree' = IF run.tree = None THEN exit_tree ELSE The(run.tree)
       /\ recommendations_text' =
             IF run.text = None THEN recommendations_text ELSE The(run.text)
       /\ UNCHANGED <<pricer, solver, calc_vars, roll_vars, bal_vars, fetch_vars, exit_fields>>

\* the exit tab after construction
IdleExit ==
    /\ exit_fields = [strike |-> BadText, iv |-> 18, expiry |-> 0, is_call |-> FALSE]
    /\ exit_run = None
    /\ exit_tree = << >>
    /\ recommendations_text = None

(***************************************************************************)
(* The premium fetches of the optimizer tab.                               *)
(*                                                                         *)
(* fetch_premium reads the leg's strike and expiry from opt_data and       *)
(* starts a thread that runs tws_fetch_option.py for that contract.  When  *)
(* the script prints a price above 0 the thread schedules, with            *)
(* root.after, _update_premium_entry, _update_opt_premium, a status line   *)
(* (which changes nothing modelled here) and, 100 ms later,                *)
(* recalculate_optimizer.  The main loop runs the callbacks scheduled with *)
(* after(0) in the order of scheduling, and a recalculate_optimizer once   *)
(* everything scheduled before it has run.  Strikes and prices are in      *)
(* cents, expiries in days ahead.                                          *)
(***************************************************************************)
Legs == {"short", "long"}

StrikeKey(leg) == IF leg = "short" THEN "short_strike" ELSE "long_strike"
ExpiryKey(leg) == IF leg = "short" THEN "short_expiry" ELSE "long_expiry"
PremiumKey(leg) == IF leg = "short" THEN "short_premium" ELSE "long_premium"

\* the strikes without a listed contract
UnlistedStrikes == {45500}

\* the price tws_fetch_option.py prints for a contract: contracts differ in
\* price, and a contract that is not listed has none
Quote(strike, expiry) ==
    IF strike \in UnlistedStrikes THEN 0 ELSE (strike \div 100) + 10 * expiry

\* s without its element i
RemoveAt(s, i) == SubSeq(s, 1, i - 1) \o SubSeq(s, i + 1, Len(s))

\* the thread fetch_premium(leg) starts for the optimizer data d: none after
\* the warning "Nastavte strike a expiry"
FetchThreads(d, leg) ==
    IF d[StrikeKey(leg)] = 0 \/ d[ExpiryKey(leg)] = 0 THEN << >>
    ELSE <<[leg |-> leg, strike |-> d[StrikeKey(leg)], expiry |-> d[ExpiryKey(leg)],
            pc |-> "run"]>>

\* fetch_premium(leg) with the optimizer data d
fetch_premium(d, leg) ==
    /\ opt_workers' = opt_workers \o FetchThreads(d, leg)
    /\ fetch_started' = [fetch_started EXCEPT ![leg] = @ + Len(FetchThreads(d, leg))]

MaxFetches == 2
OptStrikeSteps == {-5, -1, 1, 5}

FetchesStarted == fetch_started["short"] + fetch_started["long"]

\* the buttons -5, -1, +1, +5 of a leg
AdjustStrike ==
    /\ FetchesStarted < MaxFetches
    /\ \E leg \in Legs, delta \in OptStrikeSteps :
          /\ opt_data' = [opt_data EXCEPT ![StrikeKey(leg)] = @ + 100 * delta]
          /\ fetch_premium(opt_data', leg)
    /\ UNCHANGED <<pricer, solver, roll_vars, bal_vars, exit_vars, calc_fields, broker_var,
                   calc_run, last_calc_result, opt_entries, opt_new_calc,
                   available_expiries, opt_expiry_idx, opt_after>>

\* the buttons Prev and Next of a leg; without available_expiries the
\* handler returns after a warning
AdjustExpiry ==
    /\ FetchesStarted < MaxFetches
    /\ available_expiries # << >>
    /\ \E leg \in Legs, delta \in {-1, 1} :
          LET new_idx == opt_expiry_idx[leg] + delta
          IN /\ IF 0 <= new_idx /\ new_idx < Len(available_expiries)
                THEN /\ opt_expiry_idx' = [opt_expiry_idx EXCEPT ![leg] = new_idx]
                     /\ opt_data' = [opt_data EXCEPT ![ExpiryKey(leg)] =
                                        available_expiries[new_idx + 1]]
                ELSE UNCHANGED <<opt_expiry_idx, opt_data>>
             /\ fetch_premium(opt_data', leg)
    /\ UNCHANGED <<pricer, solver, roll_vars, bal_vars, exit_vars, calc_fields, broker_var,
                   calc_run, last_calc_result, opt_entries, opt_new_calc,
                   available_expiries, opt_after>>

\* the fetch button of a leg
FetchPremium ==
    /\ FetchesStarted < MaxFetches
    /\ \E leg \in Legs : fetch_premium(opt_data, leg)
    /\ UNCHANGED <<pricer, solver, roll_vars, bal_vars, exit_vars, calc_vars,
                   available_expiries, opt_expiry_idx, opt_after>>

\* subprocess.run returns in a thread: with a price above 0 the thread
\* schedules _update_premium_entry, otherwise a status line only, and ends
FetchReturns ==
    /\ \E i \in 1..Len(opt_workers) :
          /\ opt_workers[i].pc = "run"
          /\ \E price \in {Quote(opt_workers[i].strike, opt_workers[i].expiry)} :
                IF price > 0
                THEN /\ opt_workers' = [opt_workers EXCEPT ![i].pc = "entry"]
                     /\ opt_after' = Append(opt_after, [kind |-> "entry",
                                                       leg |-> opt_workers[i].leg,
                                                       val |-> price])
                ELSE /\ opt_workers' = RemoveAt(opt_workers, i)
                     /\ UNCHANGED opt_after
    /\ UNCHANGED <<pricer, solver, roll_vars, bal_vars, exit_vars, calc_vars,
                   available_expiries, opt_expiry_idx, fetch_started>>

\* the thread's next root.after: _update_opt_premium after the entry update,
\* then recalculate_optimizer, with which the thread ends
FetchSchedules ==
    /\ \E i \in 1..Len(opt_workers) :
          \/ /\ opt_workers[i].pc = "entry"
             /\ opt_workers' = [opt_workers EXCEPT ![i].pc = "premium"]
             /\ opt_after' = Append(opt_after,
                   [kind |-> "premium", leg |-> opt_workers[i].leg,
                    val |-> Quote(opt_workers[i].strike, opt_workers[i].expiry)])
          \/ /\ opt_workers[i].pc = "premium"
             /\ opt_workers' = RemoveAt(opt_workers, i)
             /\ opt_after' = Append(opt_after,
                   [kind |-> "recalculate", leg |-> opt_workers[i].leg, val |-> 0])
    /\ UNCHANGED <<pricer, solver, roll_vars, bal_vars, exit_vars, calc_vars,
                   available_expiries, opt_expiry_idx, fetch_started>>

\* the callback at position j is the next the main loop runs: an after(0)
\* callback when no after(0) callback was scheduled before it, a
\* recalculate_optimizer when nothing was
Due(j) ==
    IF opt_after[j].kind = "recalculate" THEN j = 1
    ELSE \A k \in 1..(j - 1) : opt_after[k].kind = "recalculate"

\* the main loop runs a scheduled callback: _update_premium_entry,
\* _update_opt_premium or recalculate_optimizer
RunAfter ==
    /\ \E j \in 1..Len(opt_after) :
          /\ Due(j)
          /\ opt_after' = RemoveAt(opt_after, j)
          /\ \/ /\ opt_after[j].kind = "entry"
                /\ opt_entries' = [opt_entries EXCEPT ![opt_after[j].leg] = opt_after[j].val]
                /\ UNCHANGED <<opt_data, opt_new_calc>>
             \/ /\ opt_after[j].kind = "premium"
                /\ opt_data' = [opt_data EXCEPT ![PremiumKey(opt_after[j].leg)] =
                                   opt_after[j].val]
                /\ UNCHANGED <<opt_entries, opt_new_calc>>
             \/ /\ opt_after[j].kind = "recalculate"
                /\ opt_data' = ReadEntries(opt_data, opt_entries)
                /\ opt_new_calc' = Some(NewCalc(ReadEntries(opt_data, opt_entries), broker_var))
                /\ UNCHANGED opt_entries
    /\ UNCHANGED <<pricer, solver, roll_vars, bal_vars, exit_vars, calc_fields, broker_var,
                   calc_run, last_calc_result,
                   available_expiries, opt_expiry_idx, fetch_started, opt_workers>>

\* the optimizer after construction: no expiries loaded, nothing fetched
IdleFetch ==
    /\ available_expiries = << >>
    /\ opt_expiry_idx = [short |-> 0, long |-> 0]
    /\ fetch_started = [short |-> 0, long |-> 0]
    /\ opt_workers = << >>
    /\ opt_after = << >>

(***************************************************************************)
(* The pricer under test: pricer holds the arguments of the call (drawn by *)
(* Init), the function last applied to them and its outcome.               *)
(***************************************************************************)
PricerArgs(S, K, Tdays, sigma) ==
    [S |-> S, K |-> K, Tdays |-> Tdays, sigma |-> sigma, fn |-> "", out |-> None]

PutPrice ==
    /\ pricer' = [pricer EXCEPT !.fn = "put_price",
                     !.out = Some(black_scholes_put_price(
                                 pricer.S, pricer.K, pricer.Tdays, Rate, pricer.sigma))]
    /\ UNCHANGED <<solver, calc_vars, roll_vars, bal_vars, exit_vars, fetch_vars>>

CallPrice ==
    /\ pricer' = [pricer EXCEPT !.fn = "call_price",
                     !.out = Some(black_scholes_call_price(
                                 pricer.S, pricer.K, pricer.Tdays, Rate, pricer.sigma))]
    /\ UNCHANGED <<solver, calc_vars, roll_vars, bal_vars, exit_vars, fetch_vars>>

DeltaPut ==
    /\ pricer' = [pricer EXCEPT !.fn = "delta_put",
                     !.out = Some(black_scholes_delta_put(
                                 pricer.S, pricer.K, pricer.Tdays, Rate, pricer.sigma))]
    /\ UNCHANGED <<solver, calc_vars, roll_vars, bal_vars, exit_vars, fetch_vars>>

DeltaCall ==
    /\ pricer' = [pricer EXCEPT !.fn = "delta_call",
                     !.out = Some(black_scholes_delta_call(
                                 pricer.S, pricer.K, pricer.Tdays, Rate, pricer.sigma))]
    /\ UNCHANGED <<solver, calc_vars, roll_vars, bal_vars, exit_vars, fetch_vars>>

(***************************************************************************)
(* The solver under test: solver holds the arguments of the call (drawn by *)
(* Init), whether the call was made, and what it returned.                 *)
(***************************************************************************)
SolverArgs(target, K, Tdays, sigma, is_call) ==
    [target |-> target, K |-> K, Tdays |-> Tdays, sigma |-> sigma,
     is_call |-> is_call, called |-> FALSE, result |-> None]

FindUnderlyingForDelta ==
    /\ solver' = [solver EXCEPT !.called = TRUE,
                     !.result = find_underlying_for_delta(
                                    solver.target, solver.K, solver.Tdays, Rate,
                                    solver.sigma, solver.is_call)]
    /\ UNCHANGED <<pricer, calc_vars, roll_vars, bal_vars, exit_vars, fetch_vars>>


IdlePricer == PricerArgs(100, 100, 90, 30)
IdleSolver == SolverArgs(0, 100, 90, 30, FALSE)

PricerInit ==
    /\ \E S \in PricerS, K \in PricerK, Tdays \in PricerDays, sigma \in PricerSigma :
          pricer = PricerArgs(S, K, Tdays, sigma)
    /\ solver = IdleSolver
    /\ IdleCalc
    /\ IdleRoll
    /\ IdleBalancer
    /\ IdleExit
    /\ IdleFetch

PricerNext ==
    \/ PutPrice
    \/ CallPrice
    \/ DeltaPut
    \/ DeltaCall

SpecPricer == PricerInit /\ [][PricerNext]_vars

SolverInit ==
    /\ pricer = IdlePricer
    /\ IdleCalc
    /\ IdleRoll
    /\ IdleBalancer
    /\ IdleExit
    /\ IdleFetch
    /\ \E K \in SolverK, Tdays \in SolverDays, sigma \in SolverSigma, is_call \in BOOLEAN :
         \E target \in SolverTargets(K, Tdays, sigma, is_call) :
            solver = SolverArgs(target, K, Tdays, sigma, is_call)

SolverNext == FindUnderlyingForDelta

SpecSolver == SolverInit /\ [][SolverNext]_vars

\* the calculator with its fields filled in, and the optimizer fed from it
CalcInit ==
    /\ pricer = IdlePricer
    /\ solver = IdleSolver
    /\ \E k \in CalcStrikes, x \in CalcExpiries,
          sp \in CalcShortPremiums, lp \in CalcLongPremiums,
          u \in CalcUnderlyings, ot \in OptionTypes :
          calc_fields = [short_strike |-> k[1], short_premium |-> sp,
                         short_expiry |-> x[1], long_strike |-> k[2],
                         long_premium |-> lp, long_expiry |-> x[2],
                         underlying_price |-> u, option_type |-> ot]
    /\ broker_var \in Brokers
    /\ NoResults
    /\ IdleRoll
    /\ IdleBalancer
    /\ IdleExit
    /\ IdleFetch

CalcNext ==
    \/ CalculateSpread
    \/ LoadFromCalculator
    \/ EditOptPremium
    \/ RecalculateOptimizer

SpecCalc == CalcInit /\ [][CalcNext]_vars

\* the roll tab with its fields filled in
RollInit ==
    /\ pricer = IdlePricer
    /\ solver = IdleSolver
    /\ IdleCalc
    /\ \E u \in RollUnderlyings, k \in RollStrikes, p \in RollPremiums,
          x \in RollExpiries, d \in RollDTEs, ti \in RollInvested,
          rc \in RollCredits, ot \in OptionTypes, av \in AvailableExpiries :
          roll_fields = [underlying |-> u, current_strike |-> k, current_premium |-> p,
                         current_expiry |-> x, current_dte |-> d, total_invested |-> ti,
                         received_credit |-> rc, option_type |-> ot,
                         available_expiries |-> av]
    /\ roll_run = None
    /\ roll_scenarios = << >>
    /\ IdleBalancer
    /\ IdleExit
    /\ IdleFetch

RollNext ==
    \/ AnalyzeRollScenarios
    \/ RollUpdateDte

SpecRoll == RollInit /\ [][RollNext]_vars

\* the balancer tab with its fields filled in
BalancerInit ==
    /\ pricer = IdlePricer
    /\ solver = IdleSolver
    /\ IdleCalc
    /\ IdleRoll
    /\ \E lt \in OptionTypes, k \in BalStrikes, x \in BalExpiries,
          u \in BalUnderlyings, iv \in BalIVs :
          bal_fields = [long_type |-> lt, long_strike |-> k, expiry |-> x,
                        underlying |-> u, iv |-> iv]
    /\ bal_run = None
    /\ bal_last_analysis = None
    /\ bal_opposite = [strike |-> 0, premium |-> 0, type |-> "PUT"]
    /\ IdleExit
    /\ IdleFetch

BalancerNext == AnalyzeBalancer

SpecBalancer == BalancerInit /\ [][BalancerNext]_vars

\* the balancer with its fields filled in, for the work on the proposal
OppositeStrikes == {BadText, 120, 163}
OppositeExpiries == {90}

OppositeInit ==
    /\ pricer = IdlePricer
    /\ solver = IdleSolver
    /\ IdleCalc
    /\ IdleRoll
    /\ IdleExit
    /\ IdleFetch
    /\ \E lt \in OptionTypes, k \in OppositeStrikes, x \in OppositeExpiries :
          bal_fields = [long_type |-> lt, long_strike |-> k, expiry |-> x,
                        underlying |-> 150, iv |-> 30]
    /\ bal_run = None
    /\ bal_last_analysis = None
    /\ bal_opposite = [strike |-> 0, premium |-> 0, type |-> "PUT"]

OppositeNext ==
    \/ AnalyzeBalancer
    \/ EditOppositeStrike
    \/ SetOppositeStrikeHalf
    \/ SetOppositeStrikeInteger

SpecOpposite == OppositeInit /\ [][OppositeNext]_vars

\* the exit tab with its fields filled in
ExitInit ==
    /\ pricer = IdlePricer
    /\ solver = IdleSolver
    /\ IdleCalc
    /\ IdleRoll
    /\ IdleBalancer
    /\ \E k \in ExitStrikes, iv \in ExitIVs, x \in ExitExpiries, c \in BOOLEAN :
          exit_fields = [strike |-> k, iv |-> iv, expiry |-> x, is_call |-> c]
    /\ exit_run = None
    /\ exit_tree = << >>
    /\ recommendations_text = None
    /\ IdleFetch

ExitNext == CalculateExitPrices

SpecExit == ExitInit /\ [][ExitNext]_vars

\* the strategy calculated before the optimizer is used: a diagonal PUT
\* debit spread
FetchStrategy ==
    [short_strike |-> 45000, short_premium |-> 200, short_expiry |-> 30,
     long_strike |-> 44000, long_premium |-> 300, long_expiry |-> 60,
     underlying_price |-> 45000, option_type |-> "PUT"]

FetchExpiryLists == {<< >>, <<30, 60, 90>>}

\* load_from_calculator's expiry index of a leg: the position of the leg's
\* expiry in available_expiries, 0 as before when it is not there
ExpiryIdx(expiries, expiry) ==
    IF \E i \in 1..Len(expiries) : expiries[i] = expiry
    THEN (CHOOSE i \in 1..Len(expiries) :
             expiries[i] = expiry /\ \A k \in 1..(i - 1) : expiries[k] # expiry) - 1
    ELSE 0

\* the optimizer with the calculated strategy loaded by load_from_calculator
FetchInit ==
    /\ pricer = IdlePricer
    /\ solver = IdleSolver
    /\ IdleRoll
    /\ IdleBalancer
    /\ IdleExit
    /\ calc_fields = FetchStrategy
    /\ broker_var = "IBKR"
    /\ \E run \in {calculate_spread(FetchStrategy, "IBKR")} :
          /\ run.outcome = "ok"
          /\ calc_run = Some(run)
          /\ \E calc \in {CalcResult(FetchStrategy, The(run.locals))} :
                /\ last_calc_result = Some(calc)
                /\ opt_entries = [short |-> calc.shortPremium, long |-> calc.longPremium]
                /\ opt_data = [short_strike |-> calc.shortStrike,
                               short_expiry |-> calc.shortExpiry,
                               short_premium |-> calc.shortPremium,
                               long_strike |-> calc.longStrike,
                               long_expiry |-> calc.longExpiry,
                               long_premium |-> calc.longPremium,
                               underlying_price |-> calc.underlyingPrice,
                               option_type |-> calc.optionType, original |-> Some(calc)]
                /\ opt_new_calc = Some(NewCalc(opt_data, "IBKR"))
    /\ \E expiries \in FetchExpiryLists :
          /\ available_expiries = expiries
          /\ opt_expiry_idx = [short |-> ExpiryIdx(expiries, FetchStrategy.short_expiry),
                               long |-> ExpiryIdx(expiries, FetchStrategy.long_expiry)]
    /\ fetch_started = [short |-> 0, long |-> 0]
    /\ opt_workers = << >>
    /\ opt_after = << >>

FetchNext ==
    \/ AdjustStrike
    \/ AdjustExpiry
    \/ FetchPremium
    \/ FetchReturns
    \/ FetchSchedules
    \/ RunAfter

SpecFetch == FetchInit /\ [][FetchNext]_vars

(***************************************************************************)
(* Properties of the pricer (SpecPricer).                                  *)
(***************************************************************************)
PricerInvalidInput == pricer.S <= 0 \/ pricer.K <= 0 \/ pricer.sigma <= 0

\* the expiry limits, in the units of the pricer's outcomes
ExpiryLimit(fn, S, K) ==
    CASE fn = "put_price" -> 100 * (IF K - S > 0 THEN K - S ELSE 0)
      [] fn = "call_price" -> 100 * (IF S - K > 0 THEN S - K ELSE 0)
      [] fn = "delta_put" -> IF S < K THEN -PSC ELSE 0
      [] fn = "delta_call" -> IF S > K THEN PSC ELSE 0

\* C1: at T <= 0, for every S, K > 0, each pricer function returns its expiry
\* limit (intrinsic value; step delta) and does not evaluate the closed form,
\* whatever sigma is.
C1_ExpiryLimits ==
    (IsSome(pricer.out) /\ pricer.Tdays <= 0 /\ pricer.S > 0 /\ pricer.K > 0)
        => /\ The(pricer.out).kind = "value"
           /\ ~The(pricer.out).closed
           /\ The(pricer.out).val = ExpiryLimit(pricer.fn, pricer.S, pricer.K)

\* a put delta of -1 returned at T = 0 for S < K with sigma = 0
C1_Witness ==
    /\ pricer.fn = "delta_put" /\ pricer.Tdays = 0 /\ pricer.sigma = 0
    /\ pricer.S = 90 /\ pricer.K = 100
    /\ pricer.out = Some(Value(-PSC, FALSE))

\* C2: every call with S <= 0, K <= 0 or sigma <= 0 at T >= 0 ends in an
\* InvalidInputError and never returns a number.
C2_InvalidInputRejected ==
    (IsSome(pricer.out) /\ pricer.Tdays >= 0 /\ PricerInvalidInput)
        => The(pricer.out).kind = "InvalidInputError"

(***************************************************************************)
(* Properties of the inverse delta solver (SpecSolver).                    *)
(***************************************************************************)
SolverLo == BracketLo(solver.K, solver.is_call)
SolverHi == BracketHi(solver.K, solver.is_call)

\* delta(S) - target at the solver's arguments
SolverDiff(S) ==
    PlainDelta(S, solver.K, solver.Tdays, solver.sigma, solver.is_call) - solver.target

\* S is a root of delta - target to within one grid step
SolverRootAt(S) ==
    \/ SolverDiff(S) = 0
    \/ S < SolverHi /\ Sign(SolverDiff(S)) * Sign(SolverDiff(S + 1)) < 0
    \/ S > SolverLo /\ Sign(SolverDiff(S - 1)) * Sign(SolverDiff(S)) < 0

SolverSameSign == Sign(SolverDiff(SolverLo)) * Sign(SolverDiff(SolverHi)) > 0

\* the target is the delta at S0, and the solver returned S0
SolverRecovers(S0) ==
    solver.target = PlainDelta(S0, solver.K, solver.Tdays, solver.sigma, solver.is_call)
        => solver.result = Some(S0)

\* C3: at T = 0 the solver returns NotFound for every target delta and both
\* option types.
C3_NotFoundAtExpiry ==
    (solver.called /\ solver.Tdays = 0) => solver.result = None

SolverContract ==
    /\ \/ solver.result = None
       \/ /\ The(solver.result) \in SolverLo .. SolverHi
          /\ SolverRootAt(The(solver.result))
    /\ solver.result = None <=> SolverSameSign

Calculated == IsSome(calc_run) /\ IsSome(The(calc_run).locals)
Locals == The(The(calc_run).locals)
\* recalculate_optimizer called calculate_spread_internal
Recalculated == IsSome(opt_new_calc)
NewCalcResult == The(opt_new_calc)

\* the decision table of the classifier, for a given reading of "same expiry"
DecisionTable(f, same_expiry) ==
    LET width == Abs(f.short_strike - f.long_strike)
        credit == f.short_premium - f.long_premium > 0
    IN IF f.long_strike = 0 \/ f.long_premium = 0 THEN "Naked"
       ELSE IF same_expiry /\ width = 0 THEN "Single"
       ELSE IF same_expiry /\ width > 0
       THEN IF credit THEN "Vertical CREDIT Spread" ELSE "Vertical DEBIT Spread"
       ELSE IF ~same_expiry /\ width = 0
       THEN IF credit THEN "Calendar CREDIT Spread" ELSE "Calendar DEBIT Spread"
       ELSE IF credit THEN "Diagonal CREDIT Spread"
       ELSE IF f.option_type = "CALL" THEN "PMCC" ELSE "PMCP"

NineKinds ==
    {"Naked", "Single", "Vertical CREDIT Spread", "Vertical DEBIT Spread",
     "Calendar CREDIT Spread", "Calendar DEBIT Spread", "Diagonal CREDIT Spread",
     "PMCC", "PMCP"}

Classified(same_expiry) ==
    /\ Locals.spread_type \in NineKinds
    /\ Locals.spread_type = DecisionTable(calc_fields, same_expiry)
    /\ Locals.spread_type # "Naked" =>
          /\ Locals.is_credit = (calc_fields.short_premium - calc_fields.long_premium > 0)
          /\ Locals.spread_width = Abs(calc_fields.short_strike - calc_fields.long_strike)

CreditProfitLoss(width, net_credit, max_profit, max_loss) ==
    /\ max_profit = Fin(net_credit * 100)
    /\ width > 0 => max_loss = Fin((width - net_credit) * 100)
    /\ width = 0 => max_loss = Unbounded

\* C6: for every credit position, in calculate_spread and in
\* calculate_spread_internal, maxProfit = netCredit x 100, maxLoss =
\* (width - netCredit) x 100 when width > 0 and the unbounded sentinel when
\* width = 0; a Naked position has the short premium as its netCredit.
C6_CreditProfitAndLoss ==
    /\ Calculated /\ Locals.is_credit =>
          /\ CreditProfitLoss(Locals.spread_width, Locals.net_credit,
                              Locals.max_profit, Locals.max_loss)
          /\ Locals.spread_type = "Naked" =>
                Locals.net_credit = calc_fields.short_premium
    /\ Recalculated /\ NewCalcResult.isCredit =>
          CreditProfitLoss(NewCalcResult.spreadWidth, NewCalcResult.netCredit,
                           NewCalcResult.maxProfit, NewCalcResult.maxLoss)

\* a credit spread with a width in the calculator, a zero-width credit
\* position in the optimizer
C6_Witness ==
    /\ Calculated /\ Locals.is_credit
    /\ Locals.spread_type = "Vertical CREDIT Spread"
    /\ Locals.max_profit = Fin(12000)
    /\ Locals.max_loss = Fin(88000)
    /\ Recalculated /\ NewCalcResult.isCredit
    /\ NewCalcResult.spreadWidth = 0
    /\ NewCalcResult.maxProfit = Fin(8000)
    /\ NewCalcResult.maxLoss = Unbounded

\* C7: for credit positions of calculate_spread the margin is width x 100
\* for a same-expiry vertical credit, width x 100 x 1.2 for a diagonal
\* credit, and underlying x brokerPct x 100 (10% IBKR, 15% SAXO) for every
\* position classified Naked and every zero-width credit position.
C7_CreditMarginByKind ==
    Calculated /\ Locals.is_credit =>
        /\ Locals.spread_type = "Vertical CREDIT Spread" =>
              Locals.margin = Locals.spread_width * 100
        /\ Locals.spread_type = "Diagonal CREDIT Spread" =>
              Locals.margin = Locals.spread_width * 120
        /\ Locals.spread_type = "Naked" \/ Locals.spread_width = 0 =>
              Locals.margin = calc_fields.underlying_price
                              * (IF broker_var = "IBKR" THEN 10 ELSE 15)

\* the PUT vertical credit spread short 450 @ 2.00, long 440 @ 0.80, same
\* expiry, IBKR, in the calculator's fields and in the optimizer's data
ScenarioInCalculator ==
    /\ Calculated
    /\ calc_fields.short_strike = 45000 /\ calc_fields.short_premium = 200
    /\ calc_fields.long_strike = 44000 /\ calc_fields.long_premium = 80
    /\ calc_fields.short_expiry = calc_fields.long_expiry
    /\ calc_fields.option_type = "PUT"
    /\ broker_var = "IBKR"

ScenarioInOptimizer ==
    /\ Recalculated
    /\ NewCalcResult.shortStrike = 45000 /\ NewCalcResult.shortPremium = 200
    /\ NewCalcResult.longStrike = 44000 /\ NewCalcResult.longPremium = 80
    /\ NewCalcResult.shortExpiry = NewCalcResult.longExpiry
    /\ NewCalcResult.optionType = "PUT"
    /\ broker_var = "IBKR"

ScenarioValues(max_loss) ==
    /\ ScenarioInCalculator =>
          /\ Locals.net_credit = 120
          /\ Locals.max_profit = Fin(12000)
          /\ Locals.max_loss = Fin(max_loss)
          /\ Locals.break_even = 44880
          /\ Locals.margin = 100000
    /\ ScenarioInOptimizer =>
          /\ NewCalcResult.netCredit = 120
          /\ NewCalcResult.maxProfit = Fin(12000)
          /\ NewCalcResult.maxLoss = Fin(max_loss)
          /\ NewCalcResult.breakEven = 44880
          /\ NewCalcResult.margin = 100000

\* C8 as stated: the scenario yields netCredit 1.20, maxProfit $120,
\* maxLoss $380, breakEven 448.80 and margin $1000.
C8_ScenarioMaxLoss380 == ScenarioValues(38000)

\* C8, amended: the scenario yields netCredit 1.20, maxProfit $120,
\* maxLoss $880 = (10 - 1.20) x 100, breakEven 448.80 and margin $1000.
C8_ScenarioMaxLoss880 == ScenarioValues(88000)

\* the scenario computed by calculate_spread_internal: loaded as 2.00 / 3.00
\* and the long premium edited to 0.80
C8_Witness ==
    /\ ScenarioInOptimizer
    /\ IsSome(opt_data.original)
    /\ NewCalcResult.spreadType = "Vertical CREDIT"
    /\ NewCalcResult.maxLoss = Fin(88000)
    /\ NewCalcResult.margin = 100000

\* C9: for every debit position, in calculate_spread and in
\* calculate_spread_internal, maxLoss = netDebit x 100 with netDebit =
\* |shortPremium - longPremium|; a same-expiry vertical debit has maxProfit =
\* (width - netDebit) x 100 and no additional margin; calendar and diagonal
\* debit positions have the unbounded sentinel as maxProfit.
C9_DebitProfitAndLoss ==
    /\ Calculated /\ ~Locals.is_credit =>
          /\ Locals.net_debit = Abs(calc_fields.short_premium - calc_fields.long_premium)
          /\ Locals.max_loss = Fin(Locals.net_debit * 100)
          /\ Locals.spread_type = "Vertical DEBIT Spread" =>
                /\ Locals.max_profit = Fin((Locals.spread_width - Locals.net_debit) * 100)
                /\ Locals.additional_margin = 0
          /\ Locals.spread_type \in {"Calendar DEBIT Spread", "PMCC", "PMCP"} =>
                Locals.max_profit = Unbounded
    /\ Recalculated /\ ~NewCalcResult.isCredit =>
          /\ NewCalcResult.netDebit
                = Abs(NewCalcResult.shortPremium - NewCalcResult.longPremium)
          /\ NewCalcResult.maxLoss = Fin(NewCalcResult.netDebit * 100)
          /\ NewCalcResult.spreadType = "Vertical DEBIT" =>
                /\ NewCalcResult.maxProfit
                      = Fin((NewCalcResult.spreadWidth - NewCalcResult.netDebit) * 100)
                /\ NewCalcResult.margin = NewCalcResult.netDebit * 100
          /\ NewCalcResult.spreadType \in {"Calendar Spread", "PMCC", "PMCP"} =>
                NewCalcResult.maxProfit = Unbounded

\* a diagonal debit in the calculator that the optimizer, with the short
\* premium edited, still sees as a diagonal debit
C9_Witness ==
    /\ Calculated /\ The(calc_run).outcome = "ok"
    /\ Locals.spread_type = "PMCP"
    /\ Locals.max_loss = Fin(10000)
    /\ Locals.max_profit = Unbounded
    /\ Recalculated /\ NewCalcResult.spreadType = "PMCP"
    /\ NewCalcResult.maxLoss = Fin(22000)
    /\ NewCalcResult.maxProfit = Unbounded

\* the broker table of the additional margin of a debit position
BrokerTable(kind, width, long_premium, underlying_price, broker) ==
    IF kind = "vertical" THEN 0
    ELSE IF kind = "calendar"
    THEN IF broker = "IBKR" THEN long_premium * 15 ELSE 0
    ELSE IF broker = "IBKR"
    THEN (IF width * 100 >= underlying_price * 5 THEN width * 100
          ELSE underlying_price * 5)
    ELSE width * 150

DebitKind(spread_type) ==
    IF spread_type \in {"Vertical DEBIT Spread", "Vertical DEBIT"} THEN "vertical"
    ELSE IF spread_type \in {"Calendar DEBIT Spread", "Calendar Spread"} THEN "calendar"
    ELSE IF spread_type \in {"PMCC", "PMCP"} THEN "diagonal"
    ELSE "other"

\* C10: for every debit position the capital requirement is netDebit x 100 +
\* additionalMargin, with additionalMargin from the broker table: vertical
\* debit 0; calendar debit 15% of long premium x 100 for IBKR and 0 for SAXO;
\* diagonal debit max(width x 100, 5% of underlying x 100) for IBKR and
\* width x 100 x 1.5 for SAXO.
C10_DebitTotalCapital ==
    /\ Calculated /\ ~Locals.is_credit =>
          /\ Locals.total_capital = Locals.net_debit * 100 + Locals.additional_margin
          /\ Locals.margin = Locals.total_capital
          /\ DebitKind(Locals.spread_type) # "other" =>
                Locals.additional_margin
                   = BrokerTable(DebitKind(Locals.spread_type), Locals.spread_width,
                                 calc_fields.long_premium, calc_fields.underlying_price,
                                 broker_var)
    /\ (Recalculated /\ ~NewCalcResult.isCredit
           /\ DebitKind(NewCalcResult.spreadType) # "other") =>
          NewCalcResult.margin
             = NewCalcResult.netDebit * 100
               + BrokerTable(DebitKind(NewCalcResult.spreadType),
                             NewCalcResult.spreadWidth, NewCalcResult.longPremium,
                             NewCalcResult.underlyingPrice, broker_var)

\* a SAXO diagonal debit of width 10 in the calculator (1.00 + 15.00), and
\* the same position in the optimizer with the short premium edited to 0.80
C10_Witness ==
    /\ broker_var = "SAXO"
    /\ Calculated /\ Locals.spread_type \in {"PMCC", "PMCP"}
    /\ Locals.spread_width = 1000
    /\ Locals.additional_margin = 150000
    /\ Locals.total_capital = 160000
    /\ Recalculated /\ NewCalcResult.spreadType \in {"PMCC", "PMCP"}
    /\ NewCalcResult.margin = 172000


\* (profit / capital) x 100 in units of 0.01 %, for capital > 0
Percent(profit, capital) == (profit * 10000) \div capital

\* the ROI of a debit position with total capital > 0: from the short premium
\* when maxProfit is the sentinel, from maxProfit when it is finite
DebitROI(max_profit, short_premium, total_capital) ==
    IF max_profit = Unbounded THEN Percent(short_premium * 100, total_capital)
    ELSE Percent(max_profit.v, total_capital)

DebitROIInCalculator ==
    Calculated /\ ~Locals.is_credit /\ Locals.total_capital > 0 =>
        Locals.total_roi = DebitROI(Locals.max_profit, calc_fields.short_premium,
                                    Locals.total_capital)

DebitROIInOptimizer ==
    Recalculated /\ ~NewCalcResult.isCredit /\ NewCalcResult.margin > 0 =>
        NewCalcResult.weeklyROI
           = (DebitROI(NewCalcResult.maxProfit, NewCalcResult.shortPremium,
                       NewCalcResult.margin) * 7) \div NewCalcResult.shortDTE

\* C11: on a debit position with total capital > 0, in calculate_spread and in
\* calculate_spread_internal, the ROI is shortPremium x 100 / totalCapital x
\* 100 whenever maxProfit is the unbounded sentinel (calendar, diagonal and
\* single-option debit) and maxProfit / totalCapital x 100 whenever maxProfit
\* is finite.
C11_DebitROIFromShortPremium == DebitROIInCalculator /\ DebitROIInOptimizer

\* the days to the short expiry floored at 1; 7 when no short expiry is entered
ShortDTE(short_expiry) ==
    IF short_expiry = 0 THEN 7
    ELSE IF short_expiry - 1 >= 1 THEN short_expiry - 1 ELSE 1

CreditROI(net_credit, margin) ==
    IF margin = 0 THEN 0 ELSE Percent(net_credit * 100, margin)

C13_BreakEven ==
    /\ Calculated =>
          Locals.break_even =
             IF Locals.is_credit
             THEN (IF calc_fields.option_type = "PUT"
                   THEN calc_fields.short_strike - Locals.net_credit
                   ELSE calc_fields.short_strike + Locals.net_credit)
             ELSE calc_fields.short_strike + Locals.net_debit
    /\ Recalculated =>
          NewCalcResult.breakEven =
             IF NewCalcResult.isCredit
             THEN (IF NewCalcResult.optionType = "PUT"
                   THEN NewCalcResult.shortStrike - NewCalcResult.netCredit
                   ELSE NewCalcResult.shortStrike + NewCalcResult.netCredit)
             ELSE NewCalcResult.shortStrike + NewCalcResult.netDebit

\* a PUT debit spread 450 / 440 paying 1.00, stored by the calculator, that
\* the optimizer turns into a credit of 1.20
C13_Witness ==
    /\ Calculated /\ ~Locals.is_credit
    /\ calc_fields.option_type = "PUT"
    /\ Locals.net_debit = 100
    /\ Locals.break_even = 45100
    /\ IsSome(last_calc_result)
    /\ The(last_calc_result).breakEven = 45100
    /\ Recalculated /\ NewCalcResult.isCredit
    /\ NewCalcResult.breakEven = 44880

\* the P/L at expiry, per contract, of a credit position of calculate_spread
\* with the underlying at S: the credit, less the short option's intrinsic
\* value, plus the long option's (a Naked position has no long option)
ExpiryPL(S) ==
    LET f == calc_fields
        Intrinsic(K) == IF f.option_type = "PUT"
                        THEN (IF K - S > 0 THEN K - S ELSE 0)
                        ELSE (IF S - K > 0 THEN S - K ELSE 0)
        long == IF Locals.spread_type = "Naked" THEN 0 ELSE Intrinsic(f.long_strike)
    IN (Locals.net_credit - Intrinsic(f.short_strike) + long) * 100

\* C14: for a credit position the roll trigger price is the underlying level
\* at which 30% of the credit is lost: the expiry P/L there is 70% of
\* netCredit x 100, and the level lies between the short strike and the
\* break-even.
C14_RollTriggerAt30PctLoss ==
    Calculated /\ Locals.is_credit =>
        /\ ExpiryPL(Locals.roll_trigger_price) = Locals.net_credit * 70
        /\ IF calc_fields.option_type = "PUT"
           THEN /\ Locals.break_even <= Locals.roll_trigger_price
                /\ Locals.roll_trigger_price <= calc_fields.short_strike
           ELSE /\ calc_fields.short_strike <= Locals.roll_trigger_price
                /\ Locals.roll_trigger_price <= Locals.break_even


(***************************************************************************)
(* Properties of the roll analysis (SpecRoll).                             *)
(***************************************************************************)
RollAnalyzed == IsSome(roll_run) /\ The(roll_run).outcome = "ok"

ScenariosOf(action) ==
    {i \in 1 .. Len(roll_scenarios) : roll_scenarios[i].action = action}

RealizedPnL ==
    roll_fields.received_credit + roll_fields.current_premium * 100
    - roll_fields.total_invested

\* C15: every list produced by analyze_roll_scenarios has exactly one Hold
\* candidate, with cost 0 and the current strike and expiry, and exactly one
\* Close candidate, whose probability of profit is 100 when the realized P/L
\* = receivedCredit + currentPremium x 100 - totalInvested is >= 0, else 0.
C15_HoldAndClose ==
    RollAnalyzed =>
        /\ Cardinality(ScenariosOf("DRZAT")) = 1
        /\ Cardinality(ScenariosOf("PREDAT")) = 1
        /\ \A i \in ScenariosOf("DRZAT") :
              /\ roll_scenarios[i].cost = 0
              /\ roll_scenarios[i].new_strike = Some(roll_fields.current_strike)
              /\ roll_scenarios[i].new_expiry = Some(roll_fields.current_expiry)
        /\ \A i \in ScenariosOf("PREDAT") :
              roll_scenarios[i].prob_profit = IF RealizedPnL >= 0 THEN 1000 ELSE 0

\* a list with strike and expiry rolls whose Close candidate realizes exactly 0
C15_Witness ==
    /\ RollAnalyzed
    /\ RealizedPnL = 0
    /\ ScenariosOf("ROLL strike") # {}
    /\ ScenariosOf("ROLL expiry") # {}
    /\ \E i \in ScenariosOf("PREDAT") : roll_scenarios[i].prob_profit = 1000

\* probabilityOfProfit x 100 / max(|totalCapitalAfterRoll|, 1), in units of
\* 0.001, from the probability in 0.1 % and the capital in cents
ScoreFormula(s) ==
    (s.prob_profit * 1000000)
    \div (IF Abs(s.total_cost) >= 100 THEN Abs(s.total_cost) ELSE 100)

\* C16 as stated: the score of every candidate, Close included, is
\* probabilityOfProfit x 100 / max(|totalCapitalAfterRoll|, 1).
C16_ScoreOfAllFour ==
    RollAnalyzed =>
        \A i \in 1 .. Len(roll_scenarios) :
            roll_scenarios[i].score = ScoreFormula(roll_scenarios[i])

\* C16, amended: the score of every Hold, RollStrike and RollExpiry candidate
\* is probabilityOfProfit x 100 / max(|totalCapitalAfterRoll|, 1); the score
\* of the Close candidate is its probabilityOfProfit (100 or 0).
C16_ScoreExceptClose ==
    RollAnalyzed =>
        \A i \in 1 .. Len(roll_scenarios) :
            roll_scenarios[i].score =
               IF roll_scenarios[i].action = "PREDAT"
               THEN roll_scenarios[i].prob_profit * 100
               ELSE ScoreFormula(roll_scenarios[i])

\* all four actions in one list, the Close candidate with probability 100
\* and score 100, a Hold candidate with a risk-adjusted score
C16_Witness ==
    /\ RollAnalyzed
    /\ ScenariosOf("ROLL strike") # {}
    /\ ScenariosOf("ROLL expiry") # {}
    /\ \E i \in ScenariosOf("PREDAT") :
          roll_scenarios[i].prob_profit = 1000 /\ roll_scenarios[i].score = 100000
    /\ \E i \in ScenariosOf("DRZAT") :
          /\ roll_scenarios[i].total_cost = 15000
          /\ roll_scenarios[i].prob_profit = 235
          /\ roll_scenarios[i].score = 15666

\* C17: after a successful analyze_roll_scenarios the stored list is in
\* non-increasing score order, and the recommendation (best scenario, starred
\* row) is its first element, a candidate of maximal score.
C17_SortedBestFirst ==
    RollAnalyzed =>
        /\ \A i \in 1 .. Len(roll_scenarios) - 1 :
              roll_scenarios[i].score >= roll_scenarios[i + 1].score
        /\ The(roll_run).best = Some(roll_scenarios[1])
        /\ 1 \in The(roll_run).starred
        /\ \A i \in The(roll_run).starred, j \in 1 .. Len(roll_scenarios) :
              roll_scenarios[i].score >= roll_scenarios[j].score

\* a list of eight candidates in which sorting moved Hold from the first to
\* the last place
C17_Witness ==
    /\ RollAnalyzed
    /\ Len(roll_scenarios) = 8
    /\ roll_scenarios[8].action = "DRZAT"
    /\ roll_scenarios[1].score > roll_scenarios[2].score
    /\ roll_scenarios[2].score > roll_scenarios[8].score
    /\ The(roll_run).starred = {1}

(***************************************************************************)
(* The balancer's proposal.                                                *)
(***************************************************************************)
BalancerAnalyzed == bal_run # None

BalancerProposed == BalancerAnalyzed /\ The(bal_run).outcome = "ok"

Proposal == The(The(bal_run).analysis)

OppositeType(t) == IF t = "CALL" THEN "PUT" ELSE "CALL"

\* the delta of a leg of the analysed position, priced as the pricer prices it
LegDelta(t, strike) ==
    IF t = "CALL"
    THEN black_scholes_delta_call(bal_fields.underlying, strike,
                                  BalancerDays(bal_fields.expiry), Rate, bal_fields.iv).val
    ELSE black_scholes_delta_put(bal_fields.underlying, strike,
                                 BalancerDays(bal_fields.expiry), Rate, bal_fields.iv).val

\* the distance of the opposite leg's delta at strike k from the target
TargetMiss(k) == LegDelta(OppositeType(bal_fields.long_type), k) - Proposal.target_delta

\* the proposed strike is within one dollar of a strike that hits the target
WithinOneStep(k) == Sign(TargetMiss(k - 1)) * Sign(TargetMiss(k + 1)) <= 0

\* C18: analyze_balancer proposes a leg of the opposite type, aims at
\* targetDelta = -longDelta, and reports deltaSum = longDelta + the delta of
\* the proposed leg at the returned strike.  Where the proposed strike lies
\* inside the search range it is within one strike step of the target, and
\* for a long CALL of delta 0.33 to 0.37 the proposed PUT delta is within
\* 0.02 of -0.35 and deltaSum within 0.02 of 0.
C18_OppositeLegAtTargetDelta ==
    BalancerProposed =>
        /\ Proposal.long.type = bal_fields.long_type
        /\ Proposal.opposite.type = OppositeType(bal_fields.long_type)
        /\ Proposal.long.delta = LegDelta(bal_fields.long_type, bal_fields.long_strike)
        /\ Proposal.target_delta = 0 - Proposal.long.delta
        /\ Proposal.opposite.delta = LegDelta(Proposal.opposite.type, Proposal.opposite.strike)
        /\ Proposal.delta_sum = Proposal.long.delta + Proposal.opposite.delta
        /\ bal_last_analysis =
              Some([long |-> Proposal.long,
                    opposite |-> [Proposal.opposite EXCEPT !.strike = StrikeText(@)]])
        /\ bal_opposite.strike = StrikeText(Proposal.opposite.strike)
        /\ (/\ Proposal.opposite.strike > StrikeLow(bal_fields.underlying)
            /\ Proposal.opposite.strike < StrikeHigh(bal_fields.underlying))
           => WithinOneStep(Proposal.opposite.strike)
        /\ (/\ bal_fields.long_type = "CALL"
            /\ Proposal.long.delta >= 330000
            /\ Proposal.long.delta <= 370000)
           => /\ Abs(Proposal.opposite.delta + 350000) <= 20000
              /\ Abs(Proposal.delta_sum) <= 20000

\* a long CALL of delta about 0.35 has been balanced by a PUT
C18_Witness ==
    /\ BalancerProposed
    /\ bal_fields.long_type = "CALL"
    /\ Proposal.long.delta >= 330000
    /\ Proposal.long.delta <= 370000
    /\ Proposal.opposite.type = "PUT"
    /\ Proposal.opposite.delta < 0

\* the analysed fields are valid input: a strike, an expiry, underlying > 0, sigma > 0
ValidBalancerInput ==
    /\ bal_fields.long_strike > 0
    /\ bal_fields.expiry # 0
    /\ bal_fields.underlying > 0
    /\ bal_fields.iv > 0

\* the 60-step scan meets neither a zero nor a sign change
NoSignChange ==
    \A i \in 0..59 :
        /\ TargetMiss(GridStrike(bal_fields.underlying, i, 60)) # 0
        /\ Sign(TargetMiss(GridStrike(bal_fields.underlying, i, 60)))
           * Sign(TargetMiss(GridStrike(bal_fields.underlying, i + 1, 60))) >= 0

\* C19: on valid input (underlying > 0, sigma > 0) the balancer reports a
\* proposal, never the failure message; when the 60-step scan finds no sign
\* change the proposed strike is a strike of the 200-step grid over
\* [0.2 x underlying, 3 x underlying] with the least |delta(K) - targetDelta|.
C19_FallbackGridProposal ==
    (BalancerAnalyzed /\ ValidBalancerInput) =>
        /\ BalancerProposed
        /\ NoSignChange =>
              /\ \E i \in 0..200 :
                    Proposal.opposite.strike = GridStrike(bal_fields.underlying, i, 200)
              /\ \A i \in 0..200 :
                    Abs(TargetMiss(Proposal.opposite.strike))
                       <= Abs(TargetMiss(GridStrike(bal_fields.underlying, i, 200)))

\* a proposal that came from the fallback grid
C19_Witness ==
    /\ BalancerProposed
    /\ ValidBalancerInput
    /\ NoSignChange

(***************************************************************************)
(* Invalid input.                                                          *)
(***************************************************************************)
\* the balancer's fields lack a strike, an expiry or an underlying, or hold
\* a malformed expiry or a strike that is no positive number
InvalidBalancerInput ==
    \/ bal_fields.long_strike <= 0
    \/ bal_fields.expiry = 0
    \/ bal_fields.expiry = BadDate
    \/ bal_fields.underlying <= 0

\* the balancer ended in a dialog and proposed nothing
BalancerFailsFast ==
    (BalancerAnalyzed /\ InvalidBalancerInput)
        => /\ The(bal_run).outcome \in {"warning", "error"}
           /\ bal_last_analysis = None

\* the roll analysis with no days to expiry entered ended in a dialog
RollFailsFast ==
    (IsSome(roll_run) /\ roll_fields.current_dte <= 0)
        => The(roll_run).outcome \in {"warning", "error"}

\* the spread calculation with no short expiry entered ended in a dialog
CalculatorFailsFast ==
    (IsSome(calc_run) /\ calc_fields.short_expiry <= 0)
        => The(calc_run).outcome \in {"warning", "error"}

\* C20: every analysis entry point ends at once in an error on a malformed
\* expiry, a missing required field or a non-positive strike, premium or
\* underlying; none goes on with a substituted default such as 7 or 14 days
\* to expiry.
C20_InvalidInputFailsFast ==
    /\ BalancerFailsFast
    /\ RollFailsFast
    /\ CalculatorFailsFast

(***************************************************************************)
(* The roll candidates.                                                    *)
(***************************************************************************)
\* the days from today to the expiry entered, as roll_update_dte counts them
DaysToCurrentExpiry == Max2(0, roll_fields.current_expiry - 1)

\* C21: the probability of profit of the Hold candidate and of every strike
\* roll is estimated with the days from today to the current expiry as it is
\* entered when the analysis runs.
C21_ProbabilityAtCurrentExpiry ==
    (RollAnalyzed /\ roll_fields.current_expiry > 0) =>
        \A i \in ScenariosOf("DRZAT") \cup ScenariosOf("ROLL strike") :
            roll_scenarios[i].prob_profit =
                estimate_probability(roll_fields.option_type, roll_fields.underlying,
                                     The(roll_scenarios[i].new_strike), DaysToCurrentExpiry)
\* the strikes at the four offsets, raised for a PUT and lowered for a CALL
OffsetStrikes ==
    {IF roll_fields.option_type = "PUT" THEN roll_fields.current_strike + d
     ELSE roll_fields.current_strike - d : d \in {3, 5, 7, 10}}

StrikeRollStrikes == {The(roll_scenarios[i].new_strike) : i \in ScenariosOf("ROLL strike")}

\* the strike rolls are the candidates at the strikes ks, one each, at the
\* current expiry
StrikeRollsAt(ks) ==
    /\ StrikeRollStrikes = ks
    /\ Cardinality(ScenariosOf("ROLL strike")) = Cardinality(ks)
    /\ \A i \in ScenariosOf("ROLL strike") :
          roll_scenarios[i].new_expiry = Some(roll_fields.current_expiry)

\* C22 as stated: the strike rolls are at exactly the four offsets 3, 5, 7
\* and 10 from the current strike, raised for a PUT and lowered for a CALL,
\* each at the current expiry.
C22_FourStrikeRolls == RollAnalyzed => StrikeRollsAt(OffsetStrikes)

\* C22 amended: the strike rolls are at those of the four offset strikes that
\* are positive, one candidate for each, at the current expiry.
C22_PositiveOffsetStrikeRolls ==
    RollAnalyzed => StrikeRollsAt({k \in OffsetStrikes : k > 0})

\* a CALL at strike 8: the offset 10 gives no candidate
C22_Witness ==
    /\ RollAnalyzed
    /\ roll_fields.option_type = "CALL"
    /\ roll_fields.current_strike = 8
    /\ StrikeRollStrikes = {5, 3, 1}
\* the new strike of candidate i is closer to the underlying than the current one
Closer(i) ==
    Abs(roll_fields.underlying - The(roll_scenarios[i].new_strike))
        < Abs(roll_fields.underlying - roll_fields.current_strike)

LaterExpiries ==
    {roll_fields.available_expiries[j] : j \in
        {j \in 1 .. Len(roll_fields.available_expiries) :
            roll_fields.available_expiries[j] > roll_fields.current_expiry}}

\* the expiry rolls keep the strike, go to a later expiry of the list, and
\* cost currentPremium x 0.007 x extraDays x 100 > 0; there are at most three
ExpiryRollsLater ==
    /\ Cardinality(ScenariosOf("ROLL expiry")) <= 3
    /\ \A i \in ScenariosOf("ROLL expiry") :
          /\ roll_scenarios[i].new_strike = Some(roll_fields.current_strike)
          /\ The(roll_scenarios[i].new_expiry) \in LaterExpiries
          /\ roll_scenarios[i].cost =
                (roll_fields.current_premium
                 * (The(roll_scenarios[i].new_expiry) - roll_fields.current_expiry) * 7) \div 10
          /\ roll_scenarios[i].cost > 0

\* C24: expiry rolls are generated only for expiries after the current one in
\* the ordered list, at most the next three; each keeps the current strike,
\* has a later expiry and an incremental cost of
\* currentPremium x 0.007 x extraDays x 100 > 0.
C24_ExpiryRollsAfterCurrent == RollAnalyzed => ExpiryRollsLater

\* the same, for a current expiry that is one of the list
ExpiryRollsAfterListed ==
    (/\ RollAnalyzed
     /\ \E j \in 1 .. Len(roll_fields.available_expiries) :
           roll_fields.available_expiries[j] = roll_fields.current_expiry)
        => ExpiryRollsLater
\* the break-even of candidate i is the calculator's debit break-even for its
\* strike and its net cost per share
BreakEvenAsCalculator(i) ==
    The(roll_scenarios[i].break_even) =
        DebitBreakEven(The(roll_scenarios[i].new_strike) * 100,
                       roll_scenarios[i].total_cost \div 100, roll_fields.option_type)

\* the candidates that have a break-even and a net cost that is a debit
DebitCandidates ==
    {i \in 1 .. Len(roll_scenarios) :
        roll_scenarios[i].break_even # None /\ roll_scenarios[i].total_cost > 0}

\* C25: for the same option type, strike and net debit per share the
\* break-even of a roll candidate (_calc_be_for_roll) equals the debit
\* break-even of the calculator, for PUT as well as for CALL.
C25_BreakEvenSharedWithCalculator ==
    RollAnalyzed => \A i \in DebitCandidates : BreakEvenAsCalculator(i)

\* the same, for CALL positions only
BreakEvenSharedForCall ==
    (RollAnalyzed /\ roll_fields.option_type = "CALL")
        => \A i \in DebitCandidates : BreakEvenAsCalculator(i)

(***************************************************************************)
(* The two implementations of the spread computation.                      *)
(***************************************************************************)
\* the optimizer's result is for the inputs of the stored calculator result
SameInputs ==
    /\ IsSome(last_calc_result)
    /\ Recalculated
    /\ \A k \in {"shortStrike", "shortPremium", "shortExpiry", "longStrike",
                 "longPremium", "longExpiry", "underlyingPrice", "optionType"} :
          NewCalcResult[k] = The(last_calc_result)[k]

\* the calculator's name for the kind that calculate_spread_internal reports
KindAsCalculator(kind, is_credit) ==
    IF kind = "Vertical CREDIT" THEN "Vertical CREDIT Spread"
    ELSE IF kind = "Vertical DEBIT" THEN "Vertical DEBIT Spread"
    ELSE IF kind = "Diagonal CREDIT" THEN "Diagonal CREDIT Spread"
    ELSE IF kind = "Calendar Spread"
    THEN (IF is_credit THEN "Calendar CREDIT Spread" ELSE "Calendar DEBIT Spread")
    ELSE kind

\* C26: for the same input calculate_spread_internal yields the direction,
\* kind, maxProfit, maxLoss, margin, breakEven and weeklyROI that
\* calculate_spread stored in last_calc_result.
C26_ImplementationsAgree ==
    SameInputs =>
        /\ NewCalcResult.isCredit = The(last_calc_result).isCredit
        /\ KindAsCalculator(NewCalcResult.spreadType, NewCalcResult.isCredit)
              = The(last_calc_result).spreadType
        /\ \A k \in {"maxProfit", "maxLoss", "margin", "breakEven", "weeklyROI"} :
              NewCalcResult[k] = The(last_calc_result)[k]

\* the same without weeklyROI
AgreeExceptWeeklyROI ==
    SameInputs =>
        /\ NewCalcResult.isCredit = The(last_calc_result).isCredit
        /\ KindAsCalculator(NewCalcResult.spreadType, NewCalcResult.isCredit)
              = The(last_calc_result).spreadType
        /\ \A k \in {"maxProfit", "maxLoss", "margin", "breakEven"} :
              NewCalcResult[k] = The(last_calc_result)[k]

\* C27: for every valid input classified as credit calculate_spread ends
\* without entering its error path and stores a result with isCredit = true
\* in last_calc_result, as it does for debit inputs.
C27_CreditCompletes ==
    (Calculated /\ Locals.is_credit) =>
        /\ The(calc_run).outcome = "ok"
        /\ last_calc_result = Some(CalcResult(calc_fields, Locals))

\* the same for debit inputs
DebitCompletes ==
    (Calculated /\ ~Locals.is_credit) =>
        /\ The(calc_run).outcome = "ok"
        /\ last_calc_result = Some(CalcResult(calc_fields, Locals))

(***************************************************************************)
(* The exit prices.                                                        *)
(***************************************************************************)
\* the button was pressed on fields that parse
ExitCalculated ==
    /\ exit_run # None
    /\ exit_fields.strike # BadText /\ exit_fields.iv # BadText
    /\ exit_fields.expiry > 0

\* a threshold (0.25, 0.30 or 0.50 delta) without an underlying price
ThresholdNotFound ==
    \E i \in 1..3 : ThresholdSolves(exit_fields, Rate)[i] = None

\* C28: when the underlying price of one of the three thresholds is not
\* found, calculate_exit_prices still ends in a handled outcome, and the
\* recommendation text is written along with the rebuilt table.
C28_NotFoundHandled ==
    (ExitCalculated /\ ThresholdNotFound) =>
        /\ The(exit_run) # "unhandled"
        /\ recommendations_text # None

\* the ladder holds a row for exactly the targets with an underlying price
LadderOmitsNotFound ==
    ExitCalculated =>
        /\ Len(exit_tree) = Cardinality({i \in 1..6 : LadderSolves(exit_fields, Rate)[i] # None})
        /\ \A k \in 1..Len(exit_tree) :
              \E i \in 1..6 :
                 /\ exit_tree[k].delta = SignedTarget(DeltaTargets[i].delta, exit_fields.is_call)
                 /\ LadderSolves(exit_fields, Rate)[i] = Some(exit_tree[k].S_target)

\* with all three thresholds found the operation completes
ThresholdsFoundCompletes ==
    (ExitCalculated /\ ~ThresholdNotFound) =>
        /\ The(exit_run) = "ok"
        /\ recommendations_text # None

(***************************************************************************)
(* The premium fetches of the optimizer.                                   *)
(***************************************************************************)
\* every thread has ended and every scheduled callback has run
FetchesComplete == opt_workers = << >> /\ opt_after = << >>

\* the price of the contract the leg stands at
LegQuote(leg) == Quote(opt_data[StrikeKey(leg)], opt_data[ExpiryKey(leg)])

\* the leg's premium, in opt_data and in its entry, is the price of its contract
PremiumOfCurrentContract(leg) ==
    /\ opt_data[PremiumKey(leg)] = LegQuote(leg)
    /\ opt_entries[leg] = LegQuote(leg)

\* C29: once all fetches started for a leg have completed, the premium in
\* opt_data and in the leg's entry is the one fetched for the strike and
\* expiry the leg stands at, also when fetches for the leg overlapped.
C29_LatestFetchWins ==
    \A leg \in Legs :
        (FetchesComplete /\ fetch_started[leg] > 0 /\ LegQuote(leg) > 0)
            => PremiumOfCurrentContract(leg)

\* the same for a leg with a single fetch
SingleFetchWins ==
    \A leg \in Legs :
        (FetchesComplete /\ fetch_started[leg] = 1 /\ LegQuote(leg) > 0)
            => PremiumOfCurrentContract(leg)

(***************************************************************************)
(* The stored analysis and the opposite-strike field.                      *)
(***************************************************************************)
\* the estimated premium of a leg of the analysed position, in cents
LegPrice(t, strike) ==
    IF t = "CALL"
    THEN black_scholes_call_price(bal_fields.underlying, strike,
                                  BalancerDays(bal_fields.expiry), Rate, bal_fields.iv).val
    ELSE black_scholes_put_price(bal_fields.underlying, strike,
                                 BalancerDays(bal_fields.expiry), Rate, bal_fields.iv).val

StoredOpposite == The(bal_last_analysis).opposite

\* the stored strike is a whole number of dollars, as the pricer takes it
WholeDollars(strike) == strike % 100 = 0

\* the stored strike is the number shown in the opposite-strike field
StrikeAsShown ==
    bal_last_analysis # None =>
        (IsNumber(bal_opposite.strike) => StoredOpposite.strike = bal_opposite.strike)

\* C30: whenever bal_last_analysis exists, its opposite-leg delta and
\* estimated premium are the values for the opposite strike it stores, and
\* that strike is the number shown in the opposite-strike field.
C30_AnalysisMatchesStrike ==
    bal_last_analysis # None =>
        /\ IsNumber(bal_opposite.strike) => StoredOpposite.strike = bal_opposite.strike
        /\ WholeDollars(StoredOpposite.strike) =>
              /\ StoredOpposite.delta
                    = LegDelta(StoredOpposite.type, StoredOpposite.strike \div 100)
              /\ StoredOpposite.est_price
                    = LegPrice(StoredOpposite.type, StoredOpposite.strike \div 100)

====
